---- MODULE Spec2Model ----
(***************************************************************************)
(* Borrowing transaction engine of the neighborhood library platform.      *)
(*                                                                         *)
(* The store is a relational database with row locks (select_for_update)   *)
(* and read-committed visibility: a transaction's writes are published at  *)
(* its commit and discarded when transaction.atomic unwinds on an          *)
(* exception.  Every statement of BorrowingService.create_borrowing and    *)
(* BorrowingService.return_borrowing that can block on a row lock is a     *)
(* step of its own; the statements between two blocking points touch only  *)
(* rows the transaction has locked and are folded into the step that       *)
(* precedes them.  Timestamps are day numbers, money is in cents.          *)
(***************************************************************************)
EXTENDS Integers, Sequences, FiniteSets, TLC

\* ------------------------------------------------------------------ bounds
NumProcs == 2
NumMembers == 2
NumBooks == 1
MaxCopies == 2
MaxBorrowings == 2
MaxDay == 1
MaxQuantity == 1
MaxFineDay == 5

\* ------------------------------------------------------- program constants
FINE_RATE_PER_DAY == 100
DEFAULT_BORROW_PERIOD_DAYS == 14

Null == -1
NoSuchId == 0

Procs == 1..NumProcs
MemberIds == 1..NumMembers
BookIds == 1..NumBooks
BorrowingIds == 1..MaxBorrowings

MEMBERSHIP_STATUS_CHOICES == {"active", "suspended", "inactive"}

VARIABLES
    membership_status,  \* Member.membership_status of every member row
    total_copies,       \* Book.total_copies of every book row
    available_copies,   \* Book.available_copies of every book row
    borrowings,         \* the Borrowing table; a row's id is its index
    fines,              \* the Fine table
    today,              \* timezone.now().date()
    locks,              \* the rows each transaction holds FOR UPDATE
    tx,                 \* each worker's call: arguments, locals, position
    last,               \* the call that completed most recently
    results             \* what a test's threads recorded, or its client sent

vars == <<membership_status, total_copies, available_copies, borrowings,
          fines, today, locks, tx, last, results>>

db == <<membership_status, total_copies, available_copies, borrowings, fines>>

\* ------------------------------------------------------------------- rows
MemberRow(m) == <<"member", m>>
BookRow(b) == <<"book", b>>
BorrowingRow(i) == <<"borrowing", i>>

\* A store whose select_for_update() never waits.
LockedByOtherNever(p, row) == FALSE

\* select_for_update() waits while another transaction holds the row.
LockedByOther(p, row) == \E q \in Procs \ {p} : row \in locks[q]

\* A store whose UPDATE never waits for a row lock.
RowLockedNever(row) == FALSE

\* A plain UPDATE of a row waits for the row lock as well.
RowLocked(row) == \E q \in Procs : row \in locks[q]

\* ------------------------------------------------------------ entity model
\* The Member table holds a row for m: membership_status maps the ids of the
\* rows that exist.
MemberExists(m) == m \in DOMAIN membership_status

\* The Book table holds a row for b: total_copies and available_copies map
\* the ids of the rows that exist.
BookExists(b) == b \in DOMAIN total_copies

\* What is left at the index of a Borrowing row that has been deleted.
DeletedBorrowing ==
    [member |-> NoSuchId, book |-> NoSuchId, due_date |-> Null,
     returned_at |-> Null]

BorrowingExists(i) ==
    i \in 1..Len(borrowings) /\ borrowings[i] # DeletedBorrowing

\* Borrowing rows with returned_at IS NULL for (member, book).
OpenBorrowings(m, b) ==
    {i \in 1..Len(borrowings) :
        /\ borrowings[i].member = m
        /\ borrowings[i].book = b
        /\ borrowings[i].returned_at = Null}

OpenBorrowingsOfBook(b) ==
    {i \in 1..Len(borrowings) :
        borrowings[i].book = b /\ borrowings[i].returned_at = Null}

FineOf(i) == {f \in fines : f.borrowing = i}

\* Borrowing.save(): due_date defaults to today + the borrowing period.
BorrowingSaveDueDate(due) ==
    IF due = Null THEN today + DEFAULT_BORROW_PERIOD_DAYS ELSE due

Max(a, b) == IF a >= b THEN a ELSE b

\* The amount without the days_overdue <= 0 branch.
calculate_fine_amount_unclamped(days_overdue) ==
    days_overdue * FINE_RATE_PER_DAY

\* BorrowingService.calculate_fine_amount
calculate_fine_amount(days_overdue) ==
    IF days_overdue <= 0 THEN 0 ELSE days_overdue * FINE_RATE_PER_DAY

\* ------------------------------------------------------------ call records
\* A worker that is not inside a call.
IdleTx ==
    [pc |-> "idle", op |-> "none", member_id |-> NoSuchId, book_id |-> NoSuchId,
     borrowing_id |-> NoSuchId, due_date |-> Null, quantity |-> 0,
     book_total |-> Null, book_available |-> Null, uncommitted |-> Null,
     instance_due_date |-> Null, overwritten |-> Null]

\* What the caller sees of a completed call: the operation, its arguments,
\* its result (ok or the exception class), for a call that committed the
\* borrowing it created or closed and the book's available_copies before the
\* commit, and for a return that directly follows the checkout of its
\* borrowing the book's available_copies before that checkout.  A return also
\* hands back its fine (the empty set is None), calculate_fine_amount its
\* argument and its amount.
Summary(op, m, b, i, res, before, round_trip_from) ==
    [op |-> op, member_id |-> m, book_id |-> b, borrowing_id |-> i,
     result |-> res, before |-> before, round_trip_from |-> round_trip_from,
     fine |-> {}, days_overdue |-> Null, amount |-> Null]

NoCall == Summary("none", NoSuchId, NoSuchId, NoSuchId, "none", Null, Null)

\* A method without transaction.atomic: the row versions written before the
\* exception stay.
RollbackMissing(p) ==
    IF tx[p].uncommitted # Null
    THEN [available_copies EXCEPT ![tx[p].book_id] = tx[p].uncommitted]
    ELSE available_copies

\* transaction.atomic unwinding on an exception: the uncommitted row versions
\* of the transaction are discarded, the committed rows stay as they are.
Rollback(p) == available_copies

\* An exception leaves the method: roll back, release the row locks.
Raise(p, exc) ==
    /\ available_copies' = Rollback(p)
    /\ tx' = [tx EXCEPT ![p] = IdleTx]
    /\ locks' = [locks EXCEPT ![p] = {}]
    /\ last' = Summary(tx[p].op, tx[p].member_id, tx[p].book_id,
                       tx[p].borrowing_id, exc, Null, Null)
    /\ UNCHANGED <<membership_status, total_copies, borrowings, fines, today>>

\* Checkouts that have been called and have not yet committed or failed.
InFlightCheckouts == {q \in Procs : tx[q].op = "create_borrowing"}

\* ---------------------------------------- BorrowingService.create_borrowing
\* A worker enters create_borrowing(member_id, book_id, due_date).
CreateBorrowing_Call(p, m, b, due) ==
    /\ tx[p].pc = "idle"
    /\ Len(borrowings) + Cardinality(InFlightCheckouts) < MaxBorrowings
    /\ tx' = [tx EXCEPT ![p] =
                [IdleTx EXCEPT !.pc = "lock_member", !.op = "create_borrowing",
                               !.member_id = m, !.book_id = b, !.due_date = due]]
    /\ UNCHANGED <<db, today, locks, last>>

\* The member lock without the membership_status check.
CreateBorrowing_LockMember_NoStatusCheck(p) ==
    LET m == tx[p].member_id
    IN  /\ tx[p].pc = "lock_member"
        /\ IF ~MemberExists(m)
           THEN Raise(p, "MemberNotFoundException")
           ELSE /\ ~LockedByOther(p, MemberRow(m))
                /\ tx' = [tx EXCEPT ![p].pc = "lock_book"]
                /\ locks' = [locks EXCEPT ![p] = @ \cup {MemberRow(m)}]
                /\ UNCHANGED <<db, today, last>>

\* The member lock with the book looked up before the member.
CreateBorrowing_LockMember_BookFirst(p) ==
    LET m == tx[p].member_id
    IN  /\ tx[p].pc = "lock_member"
        /\ IF ~BookExists(tx[p].book_id)
           THEN Raise(p, "BookNotFoundException")
           ELSE IF ~MemberExists(m)
           THEN Raise(p, "MemberNotFoundException")
           ELSE /\ ~LockedByOther(p, MemberRow(m))
                /\ IF membership_status[m] # "active"
                   THEN Raise(p, "MemberNotActiveException")
                   ELSE /\ tx' = [tx EXCEPT ![p].pc = "lock_book"]
                        /\ locks' = [locks EXCEPT ![p] = @ \cup {MemberRow(m)}]
                        /\ UNCHANGED <<db, today, last>>

\* The member lock taken only after the book's row has been locked.
CreateBorrowing_LockMember_AfterBook(p) ==
    LET m == tx[p].member_id
        b == tx[p].book_id
    IN  /\ tx[p].pc = "lock_member"
        /\ IF BookExists(b) /\ BookRow(b) \notin locks[p]
           THEN /\ ~LockedByOther(p, BookRow(b))
                /\ locks' = [locks EXCEPT ![p] = @ \cup {BookRow(b)}]
                /\ UNCHANGED <<db, today, last, tx>>
           ELSE IF ~MemberExists(m)
           THEN Raise(p, "MemberNotFoundException")
           ELSE /\ ~LockedByOther(p, MemberRow(m))
                /\ IF membership_status[m] # "active"
                   THEN Raise(p, "MemberNotActiveException")
                   ELSE /\ tx' = [tx EXCEPT ![p].pc = "lock_book"]
                        /\ locks' = [locks EXCEPT ![p] = @ \cup {MemberRow(m)}]
                        /\ UNCHANGED <<db, today, last>>

\* Member.objects.select_for_update().get(id=member_id) and the
\* membership_status check.
CreateBorrowing_LockMember(p) ==
    LET m == tx[p].member_id
    IN  /\ tx[p].pc = "lock_member"
        /\ IF ~MemberExists(m)
           THEN Raise(p, "MemberNotFoundException")
           ELSE /\ ~LockedByOther(p, MemberRow(m))
                /\ IF membership_status[m] # "active"
                   THEN Raise(p, "MemberNotActiveException")
                   ELSE /\ tx' = [tx EXCEPT ![p].pc = "lock_book"]
                        /\ locks' = [locks EXCEPT ![p] = @ \cup {MemberRow(m)}]
                        /\ UNCHANGED <<db, today, last>>

\* The book lock without the availability check on the locked row.
CreateBorrowing_LockBook_NoAvailabilityCheck(p) ==
    LET b == tx[p].book_id
    IN  /\ tx[p].pc = "lock_book"
        /\ IF ~BookExists(b)
           THEN Raise(p, "BookNotFoundException")
           ELSE /\ ~LockedByOther(p, BookRow(b))
                /\ tx' = [tx EXCEPT ![p].pc = "decrement"]
                /\ locks' = [locks EXCEPT ![p] = @ \cup {BookRow(b)}]
                /\ UNCHANGED <<db, today, last>>

\* Book.objects.select_for_update().get(id=book_id) and the availability
\* check on the locked row.
CreateBorrowing_LockBook(p) ==
    LET b == tx[p].book_id
    IN  /\ tx[p].pc = "lock_book"
        /\ IF ~BookExists(b)
           THEN Raise(p, "BookNotFoundException")
           ELSE /\ ~LockedByOther(p, BookRow(b))
                /\ IF available_copies[b] <= 0
                   THEN Raise(p, "BookNotAvailableException")
                   ELSE /\ tx' = [tx EXCEPT ![p].pc = "decrement"]
                        /\ locks' = [locks EXCEPT ![p] = @ \cup {BookRow(b)}]
                        /\ UNCHANGED <<db, today, last>>

\* Rows matched by filter(id=book_id, available_copies__gt=0): the number of
\* rows the conditional decrement updates.
DecrementUpdatedCount(b) == IF available_copies[b] > 0 THEN 1 ELSE 0

\* The guarded decrement, evaluated on the row at write time; its row version
\* stays uncommitted until the transaction ends.
CreateBorrowing_Decrement(p) ==
    LET b == tx[p].book_id
    IN  /\ tx[p].pc = "decrement"
        /\ IF DecrementUpdatedCount(b) = 0
           THEN Raise(p, "ConcurrencyException")
           ELSE /\ tx' = [tx EXCEPT ![p].pc = "insert",
                                    ![p].uncommitted = available_copies[b] - 1]
                /\ UNCHANGED <<db, today, locks, last>>

\* The Borrowing table without its partial unique constraint.
UniqueActiveBorrowingAbsent(m, b) == TRUE

\* unique_active_borrowing_per_member_book admits a new open row for (m, b).
UniqueActiveBorrowing(m, b) == OpenBorrowings(m, b) = {}

\* Borrowing.objects.create(...), the IntegrityError translation, and the
\* commit at the exit of transaction.atomic.
CreateBorrowing_Insert(p) ==
    LET t == tx[p]
        m == t.member_id
        b == t.book_id
        id == Len(borrowings) + 1
    IN  /\ t.pc = "insert"
        /\ IF ~UniqueActiveBorrowing(m, b)
           THEN Raise(p, "BookAlreadyBorrowedException")
           ELSE /\ borrowings' = Append(borrowings,
                        [member |-> m, book |-> b,
                         due_date |-> BorrowingSaveDueDate(t.due_date),
                         returned_at |-> Null])
                /\ available_copies' = [available_copies EXCEPT ![b] = t.uncommitted]
                /\ tx' = [tx EXCEPT ![p] = IdleTx]
                /\ locks' = [locks EXCEPT ![p] = {}]
                /\ last' = Summary(t.op, m, b, id, "ok", available_copies[b], Null)
                /\ UNCHANGED <<membership_status, total_copies, fines, today>>

\* An unexpected persistence failure at the insert (the failing save of
\* test_borrowing_transaction_rollback_on_error): the error propagates.
CreateBorrowing_InsertFails(p) ==
    /\ tx[p].pc = "insert"
    /\ Raise(p, "DatabaseError")

\* ---------------------------------------- BorrowingService.return_borrowing
\* A worker enters return_borrowing(borrowing_id).
ReturnBorrowing_Call(p, i) ==
    /\ tx[p].pc = "idle"
    /\ tx' = [tx EXCEPT ![p] =
                [IdleTx EXCEPT !.pc = "rb_lock_borrowing", !.op = "return_borrowing",
                               !.borrowing_id = i]]
    /\ UNCHANGED <<db, today, locks, last>>

\* Borrowing.objects.select_for_update().select_related('member', 'book')
\* locks the borrowing row, then the joined member row, then the joined book
\* row; each of the three can wait.  First the borrowing row.
ReturnBorrowing_LockBorrowing(p) ==
    LET i == tx[p].borrowing_id
    IN  /\ tx[p].pc = "rb_lock_borrowing"
        /\ IF ~BorrowingExists(i)
           THEN Raise(p, "BorrowingNotFoundException")
           ELSE /\ ~LockedByOther(p, BorrowingRow(i))
                /\ tx' = [tx EXCEPT ![p].pc = "rb_lock_member",
                                    ![p].member_id = borrowings[i].member,
                                    ![p].book_id = borrowings[i].book]
                /\ locks' = [locks EXCEPT ![p] = @ \cup {BorrowingRow(i)}]
                /\ UNCHANGED <<db, today, last>>

\* The joined member row of the same SELECT ... FOR UPDATE.
ReturnBorrowing_LockMember(p) ==
    LET t == tx[p]
    IN  /\ t.pc = "rb_lock_member"
        /\ ~LockedByOther(p, MemberRow(t.member_id))
        /\ tx' = [tx EXCEPT ![p].pc = "rb_lock_book"]
        /\ locks' = [locks EXCEPT ![p] = @ \cup {MemberRow(t.member_id)}]
        /\ UNCHANGED <<db, today, last>>

\* Overdue days that count the due date itself.
ReturnDaysOverdueInclusive(returned_at, due_date) ==
    Max(returned_at - due_date + 1, 0)

\* days_overdue = max((returned_at.date() - borrowing.due_date).days, 0)
ReturnDaysOverdue(returned_at, due_date) == Max(returned_at - due_date, 0)

\* The increment without its guard.
IncrementUnguarded(b) == 1

\* The increment left out.
IncrementMissing(b) == 0

\* Rows matched by filter(id=book.id, available_copies__lt=F('total_copies')):
\* the number of rows the conditional increment updates.
IncrementUpdatedCount(b) == IF available_copies[b] < total_copies[b] THEN 1 ELSE 0

\* f"Overdue by {days_overdue} day{'s' if days_overdue != 1 else ''}", kept as
\* the pieces the f-string joins.
FineReason(days_overdue) ==
    <<"Overdue by ", ToString(days_overdue),
      " day" \o (IF days_overdue # 1 THEN "s" ELSE "")>>

\* A fine of one day's rate whatever the number of days.
FineGetOrCreateFlatRate(i, days_overdue) ==
    IF FineOf(i) # {}
    THEN fines
    ELSE fines \cup {[borrowing |-> i,
                      amount |-> FINE_RATE_PER_DAY,
                      reason |-> FineReason(days_overdue),
                      is_paid |-> FALSE]}

\* An update_or_create: the fine of the borrowing is replaced by a new one.
FineUpdateOrCreate(i, days_overdue) ==
    (fines \ FineOf(i)) \cup {[borrowing |-> i,
                               amount |-> days_overdue * FINE_RATE_PER_DAY,
                               reason |-> FineReason(days_overdue),
                               is_paid |-> FALSE]}

\* Fine.objects.get_or_create(borrowing=..., defaults={amount, reason}): the
\* Fine table after it.
FineGetOrCreate(i, days_overdue) ==
    IF FineOf(i) # {}
    THEN fines
    ELSE fines \cup {[borrowing |-> i,
                      amount |-> days_overdue * FINE_RATE_PER_DAY,
                      reason |-> FineReason(days_overdue),
                      is_paid |-> FALSE]}

\* The fine return_borrowing hands back: None when the borrowing is not
\* overdue, else the row get_or_create found or created.
ReturnedFine(i, days_overdue) ==
    IF days_overdue > 0
    THEN {f \in FineGetOrCreate(i, days_overdue) : f.borrowing = i}
    ELSE {}

\* The last completed call is the checkout that created borrowing i.
FollowsItsCheckout(i) ==
    last.op = "create_borrowing" /\ last.result = "ok" /\ last.borrowing_id = i

\* The return without its returned_at check.
ReturnBorrowing_LockBook_NoReturnedCheck(p) ==
    LET t == tx[p]
        i == t.borrowing_id
        b == t.book_id
        returned_at == today
        days_overdue == ReturnDaysOverdue(returned_at, borrowings[i].due_date)
    IN  /\ t.pc = "rb_lock_book"
        /\ ~LockedByOther(p, BookRow(b))
        /\ borrowings' = [borrowings EXCEPT ![i].returned_at = returned_at]
        /\ available_copies' =
              [available_copies EXCEPT ![b] = @ + IncrementUpdatedCount(b)]
        /\ fines' = IF days_overdue > 0
                    THEN FineGetOrCreate(i, days_overdue)
                    ELSE fines
        /\ tx' = [tx EXCEPT ![p] = IdleTx]
        /\ locks' = [locks EXCEPT ![p] = {}]
        /\ last' = [Summary(t.op, t.member_id, b, i, "ok", available_copies[b], Null)
                        EXCEPT !.fine = ReturnedFine(i, days_overdue)]
        /\ UNCHANGED <<membership_status, total_copies, today>>

\* The joined book row, then the rest of the method on the locked rows: the
\* returned_at check, returned_at = now, the guarded increment, the fine, and
\* the commit at the exit of transaction.atomic.
ReturnBorrowing_LockBook(p) ==
    LET t == tx[p]
        i == t.borrowing_id
        b == t.book_id
        returned_at == today
        days_overdue == ReturnDaysOverdue(returned_at, borrowings[i].due_date)
    IN  /\ t.pc = "rb_lock_book"
        /\ ~LockedByOther(p, BookRow(b))
        /\ IF borrowings[i].returned_at # Null
           THEN Raise(p, "BorrowingAlreadyReturnedException")
           ELSE /\ borrowings' = [borrowings EXCEPT ![i].returned_at = returned_at]
                /\ available_copies' =
                      [available_copies EXCEPT ![b] = @ + IncrementUpdatedCount(b)]
                /\ fines' = IF days_overdue > 0
                            THEN FineGetOrCreate(i, days_overdue)
                            ELSE fines
                /\ tx' = [tx EXCEPT ![p] = IdleTx]
                /\ locks' = [locks EXCEPT ![p] = {}]
                /\ last' = [Summary(t.op, t.member_id, b, i, "ok", available_copies[b],
                                    IF FollowsItsCheckout(i) THEN last.before ELSE Null)
                                EXCEPT !.fine = ReturnedFine(i, days_overdue)]
                /\ UNCHANGED <<membership_status, total_copies, today>>

\* ------------------------------------------------ BookViewSet.increase_copies
\* get_object() and the quantity check.  The view runs outside any
\* transaction: it reads the committed row and takes no lock.
IncreaseCopies_Read(p, b, quantity) ==
    /\ tx[p].pc = "idle"
    /\ IF ~BookExists(b)
       THEN /\ last' = Summary("increase_copies", NoSuchId, b, NoSuchId, "Http404", Null, Null)
            /\ UNCHANGED <<db, today, locks, tx>>
       ELSE IF quantity <= 0
       THEN /\ last' = Summary("increase_copies", NoSuchId, b, NoSuchId, "Http400", Null, Null)
            /\ UNCHANGED <<db, today, locks, tx>>
       ELSE /\ total_copies[b] + quantity <= MaxCopies
            /\ tx' = [tx EXCEPT ![p] =
                        [IdleTx EXCEPT !.pc = "save", !.op = "increase_copies",
                                       !.book_id = b, !.quantity = quantity,
                                       !.book_total = total_copies[b],
                                       !.book_available = available_copies[b]]]
            /\ UNCHANGED <<db, today, locks, last>>

\* book.total_copies += quantity; book.available_copies += quantity;
\* book.save(): an UPDATE of every column from the instance read earlier.
IncreaseCopies_Save(p) ==
    LET t == tx[p]
        b == t.book_id
    IN  /\ t.pc = "save"
        /\ ~RowLocked(BookRow(b))
        /\ total_copies' = [total_copies EXCEPT ![b] = t.book_total + t.quantity]
        /\ available_copies' =
              [available_copies EXCEPT ![b] = t.book_available + t.quantity]
        /\ tx' = [tx EXCEPT ![p] = IdleTx]
        /\ last' = Summary(t.op, NoSuchId, b, NoSuchId, "ok", available_copies[b], Null)
        /\ UNCHANGED <<membership_status, borrowings, fines, today, locks>>

\* ------------------------------------------------------------ specification
\* The due_date argument: omitted, or a given day.
DueDates == {Null} \cup (0..(MaxDay - 1))

\* Rows as the Book check constraints admit them; no call in flight.  The
\* calls of one run fall on one day, which may be any day.
Init ==
    /\ membership_status \in [MemberIds -> MEMBERSHIP_STATUS_CHOICES]
    /\ total_copies \in [BookIds -> 0..MaxCopies]
    /\ available_copies \in [BookIds -> 0..MaxCopies]
    /\ \A b \in BookIds : available_copies[b] <= total_copies[b]
    /\ borrowings = <<>>
    /\ fines = {}
    /\ today \in 0..MaxDay
    /\ locks = [p \in Procs |-> {}]
    /\ tx = [p \in Procs |-> IdleTx]
    /\ last = NoCall
    /\ results = [p \in Procs |-> NoCall]

CheckOut(p) ==
    \E m \in MemberIds \cup {NoSuchId}, b \in BookIds \cup {NoSuchId}, due \in DueDates :
        CreateBorrowing_Call(p, m, b, due)

Return(p) == \E i \in BorrowingIds : ReturnBorrowing_Call(p, i)

Restock(p) ==
    \E b \in BookIds \cup {NoSuchId}, quantity \in 0..MaxQuantity :
        IncreaseCopies_Read(p, b, quantity)

\* The engine and the restock action under arbitrary callers.
Next ==
    \/ \E p \in Procs : CheckOut(p) /\ UNCHANGED results
    \/ \E p \in Procs : CreateBorrowing_LockMember(p) /\ UNCHANGED results
    \/ \E p \in Procs : CreateBorrowing_LockBook(p) /\ UNCHANGED results
    \/ \E p \in Procs : CreateBorrowing_Decrement(p) /\ UNCHANGED results
    \/ \E p \in Procs : CreateBorrowing_Insert(p) /\ UNCHANGED results
    \/ \E p \in Procs : Return(p) /\ UNCHANGED results
    \/ \E p \in Procs : ReturnBorrowing_LockBorrowing(p) /\ UNCHANGED results
    \/ \E p \in Procs : ReturnBorrowing_LockMember(p) /\ UNCHANGED results
    \/ \E p \in Procs : ReturnBorrowing_LockBook(p) /\ UNCHANGED results
    \/ \E p \in Procs : Restock(p) /\ UNCHANGED results
    \/ \E p \in Procs : IncreaseCopies_Save(p) /\ UNCHANGED results

Spec == Init /\ [][Next]_vars

\* The engine with a store whose insert can fail unexpectedly.
FaultNext ==
    \/ Next
    \/ \E p \in Procs : CreateBorrowing_InsertFails(p) /\ UNCHANGED results

SpecFault == Init /\ [][FaultNext]_vars

\* ------------------------------------------------- concurrent checkout test
\* BorrowingConcurrencyTests: every thread calls create_borrowing once and
\* records what it got; the books start with every copy available and no
\* borrowing exists.
InitContention ==
    /\ Init
    /\ available_copies = total_copies

\* A thread's entry in results: pending from its call until it completes.
Pending(t) ==
    Summary(t.op, t.member_id, t.book_id, NoSuchId, "pending", Null, Null)

ThreadCalls(p) ==
    /\ results[p] = NoCall
    /\ CheckOut(p)
    /\ results' = [results EXCEPT ![p] = Pending(tx'[p])]

\* results_dict['success'].append / results_dict['errors'].append
ThreadRecords(p) ==
    results' = IF tx'[p].pc = "idle"
               THEN [results EXCEPT ![p] = last']
               ELSE results

ContentionNext ==
    \/ \E p \in Procs : ThreadCalls(p)
    \/ \E p \in Procs : CreateBorrowing_LockMember(p) /\ ThreadRecords(p)
    \/ \E p \in Procs : CreateBorrowing_LockBook(p) /\ ThreadRecords(p)
    \/ \E p \in Procs : CreateBorrowing_Decrement(p) /\ ThreadRecords(p)
    \/ \E p \in Procs : CreateBorrowing_Insert(p) /\ ThreadRecords(p)

SpecContention == InitContention /\ [][ContentionNext]_vars

\* The threads that called create_borrowing for book b.
Callers(b) ==
    {p \in Procs : results[p].op = "create_borrowing" /\ results[p].book_id = b}

Succeeded(S) == {p \in S : results[p].result = "ok"}

\* Every thread that was started has completed.
AllJoined == \A p \in Procs : tx[p].pc = "idle"

DistinctActiveMembers(S) ==
    /\ \A p \in S : /\ results[p].member_id \in MemberIds
                    /\ membership_status[results[p].member_id] = "active"
    /\ \A p, q \in S : p # q => results[p].member_id # results[q].member_id

SameActiveMember(S) ==
    /\ \A p \in S : /\ results[p].member_id \in MemberIds
                    /\ membership_status[results[p].member_id] = "active"
    /\ \A p, q \in S : results[p].member_id = results[q].member_id

\* ------------------------------------------------------------------ claims
\* C1: every book satisfies 0 <= available_copies <= total_copies in every
\* state reached by interleavings of checkout, return and restock.
C1_CopiesWithinBounds ==
    \A b \in BookIds :
        0 <= available_copies[b] /\ available_copies[b] <= total_copies[b]

\* A restock has just committed on a book that has been checked out and
\* returned and is checked out again.
C1_Witness ==
    /\ last.op = "increase_copies" /\ last.result = "ok"
    /\ \E i, j \in 1..Len(borrowings) :
          /\ borrowings[i].book = last.book_id
          /\ borrowings[j].book = last.book_id
          /\ borrowings[i].returned_at # Null
          /\ borrowings[j].returned_at = Null

\* C2: each (member, book) pair has at most one open borrowing.
C2_OneOpenBorrowingPerPair ==
    \A m \in MemberIds, b \in BookIds : Cardinality(OpenBorrowings(m, b)) <= 1

\* A second checkout of a pair that holds an open borrowing was refused.
C2_Witness ==
    /\ last.result = "BookAlreadyBorrowedException"
    /\ OpenBorrowings(last.member_id, last.book_id) # {}

\* C3: N >= 2 concurrent checkouts by distinct active members of a book with
\* exactly one available copy: exactly one succeeds, the others fail with
\* BookNotAvailable or ConcurrencyConflict, available_copies ends at 0 and
\* exactly one open borrowing of the book exists.  (Under InitContention the
\* copies available at the start are the book's total_copies.)
C3_LastCopyContention ==
    \A b \in BookIds :
        (/\ AllJoined
         /\ Cardinality(Callers(b)) >= 2
         /\ DistinctActiveMembers(Callers(b))
         /\ total_copies[b] = 1)
        => /\ Cardinality(Succeeded(Callers(b))) = 1
           /\ \A p \in Callers(b) \ Succeeded(Callers(b)) :
                 results[p].result \in {"BookNotAvailableException",
                                        "ConcurrencyException"}
           /\ available_copies[b] = 0
           /\ Cardinality(OpenBorrowingsOfBook(b)) = 1

\* Two threads of distinct active members have contended for a last copy.
C3_Witness ==
    \E b \in BookIds :
        /\ AllJoined
        /\ Cardinality(Callers(b)) >= 2
        /\ DistinctActiveMembers(Callers(b))
        /\ total_copies[b] = 1
        /\ \E p \in Callers(b) : results[p].result = "BookNotAvailableException"

\* C4 as stated: concurrent checkouts of one (member, book) pair, the member
\* active and without an open borrowing of the book, the book with at least one
\* available copy: exactly one succeeds, every other fails with
\* BookAlreadyBorrowed.
C4_Original ==
    \A b \in BookIds :
        (/\ AllJoined
         /\ Cardinality(Callers(b)) >= 2
         /\ SameActiveMember(Callers(b))
         /\ total_copies[b] >= 1)
        => /\ Cardinality(Succeeded(Callers(b))) = 1
           /\ \A p \in Callers(b) \ Succeeded(Callers(b)) :
                 results[p].result = "BookAlreadyBorrowedException"

\* C4 amended: exactly one succeeds; every other fails with BookAlreadyBorrowed
\* when the book started with at least two available copies, and with
\* BookNotAvailable when it started with exactly one.
C4_SamePairContention ==
    \A b \in BookIds :
        (/\ AllJoined
         /\ Cardinality(Callers(b)) >= 2
         /\ SameActiveMember(Callers(b))
         /\ total_copies[b] >= 1)
        => /\ Cardinality(Succeeded(Callers(b))) = 1
           /\ Cardinality(OpenBorrowingsOfBook(b)) = 1
           /\ available_copies[b] = total_copies[b] - 1
           /\ \A p \in Callers(b) \ Succeeded(Callers(b)) :
                 results[p].result = IF total_copies[b] >= 2
                                     THEN "BookAlreadyBorrowedException"
                                     ELSE "BookNotAvailableException"

\* Two threads of one active member have contended for a book with two copies
\* and the loser was refused by the unique constraint.
C4_Witness ==
    \E b \in BookIds :
        /\ AllJoined
        /\ Cardinality(Callers(b)) >= 2
        /\ SameActiveMember(Callers(b))
        /\ total_copies[b] >= 2
        /\ \E p \in Callers(b) : results[p].result = "BookAlreadyBorrowedException"

\* C5 as stated: more than N concurrent checkouts by distinct active members of
\* a book with N available copies: exactly N succeed and every further attempt
\* fails with ConcurrencyConflict.
C5_Original ==
    \A b \in BookIds :
        (/\ AllJoined
         /\ total_copies[b] >= 1
         /\ Cardinality(Callers(b)) > total_copies[b]
         /\ DistinctActiveMembers(Callers(b)))
        => /\ Cardinality(Succeeded(Callers(b))) = total_copies[b]
           /\ \A p \in Callers(b) \ Succeeded(Callers(b)) :
                 results[p].result = "ConcurrencyException"

\* C5 amended: exactly N succeed and every further attempt fails with
\* BookNotAvailable, at its locked read of the book; no checkout's conditional
\* decrement updates zero rows.
C5_MoreCallersThanCopies ==
    /\ \A b \in BookIds :
        (/\ AllJoined
         /\ total_copies[b] >= 1
         /\ Cardinality(Callers(b)) > total_copies[b]
         /\ DistinctActiveMembers(Callers(b)))
        => /\ Cardinality(Succeeded(Callers(b))) = total_copies[b]
           /\ \A p \in Callers(b) \ Succeeded(Callers(b)) :
                 results[p].result = "BookNotAvailableException"
    /\ \A p \in Procs : results[p].result # "ConcurrencyException"
    /\ \A p \in Procs : tx[p].pc = "decrement" =>
                            DecrementUpdatedCount(tx[p].book_id) = 1

\* More threads than copies have run and all copies are out.
C5_Witness ==
    \E b \in BookIds :
        /\ AllJoined
        /\ total_copies[b] >= 1
        /\ Cardinality(Callers(b)) > total_copies[b]
        /\ DistinctActiveMembers(Callers(b))
        /\ Cardinality(Succeeded(Callers(b))) = total_copies[b]
        /\ available_copies[b] = 0

\* A worker's call ends in this step: it commits or an exception leaves it.
Completes(p) == tx[p].pc # "idle" /\ tx'[p].pc = "idle"

CheckoutCompletes(p) == tx[p].op = "create_borrowing" /\ Completes(p)

\* The tables the engine writes.
tables == <<membership_status, total_copies, available_copies, borrowings, fines>>

\* C6: a checkout or return that fails, also after its conditional decrement
\* (uniqueness violation or unexpected failure at the insert), leaves
\* available_copies, the borrowings and the fines as they were: the tables
\* change only in the step in which a call commits.
C6_FailedCallChangesNothing ==
    [][ \/ \E p \in Procs : Completes(p) /\ last'.result = "ok"
        \/ UNCHANGED tables ]_vars

\* A checkout has failed at the insert, after its decrement, on a book that
\* still shows the copy.
C6_Witness ==
    /\ last.op = "create_borrowing"
    /\ last.result = "DatabaseError"
    /\ last.book_id \in BookIds
    /\ available_copies[last.book_id] = total_copies[last.book_id]
    /\ total_copies[last.book_id] >= 1
    /\ borrowings = <<>>

\* The checkout completing in this step is by an active member who holds an
\* open borrowing of the book.
HoldsOpenBorrowing(p) ==
    /\ tx[p].member_id \in MemberIds
    /\ tx[p].book_id \in BookIds
    /\ membership_status[tx[p].member_id] = "active"
    /\ OpenBorrowings(tx[p].member_id, tx[p].book_id) # {}

\* The checkout completing in this step is by an active member whose
\* borrowings of the book are all returned, and a copy is available.
HoldsReturnedOnly(p) ==
    /\ tx[p].member_id \in MemberIds
    /\ tx[p].book_id \in BookIds
    /\ membership_status[tx[p].member_id] = "active"
    /\ OpenBorrowings(tx[p].member_id, tx[p].book_id) = {}
    /\ \E i \in 1..Len(borrowings) :
          /\ borrowings[i].member = tx[p].member_id
          /\ borrowings[i].book = tx[p].book_id
    /\ available_copies[tx[p].book_id] > 0

Reborrowed(p) ==
    /\ last'.result = "ok"
    /\ Len(borrowings') = Len(borrowings) + 1
    /\ borrowings'[Len(borrowings')].member = tx[p].member_id
    /\ borrowings'[Len(borrowings')].book = tx[p].book_id
    /\ borrowings'[Len(borrowings')].returned_at = Null

\* C7 as stated: wherever an active member holds an open borrowing of a book,
\* a checkout of that book by that member fails with BookAlreadyBorrowed and
\* leaves available_copies unchanged.
C7_Original ==
    [][ \A p \in Procs :
          (CheckoutCompletes(p) /\ HoldsOpenBorrowing(p))
          => /\ last'.result = "BookAlreadyBorrowedException"
             /\ UNCHANGED available_copies ]_vars

\* C7 amended: such a checkout fails with BookAlreadyBorrowed when the book has
\* an available copy and with BookNotAvailable when it has none, and leaves
\* available_copies unchanged; once the borrowing is returned, a checkout of the
\* book by the member succeeds when a copy is available.
C7_DuplicateThenReborrow ==
    [][ \A p \in Procs :
          /\ (CheckoutCompletes(p) /\ HoldsOpenBorrowing(p))
             => /\ last'.result = IF available_copies[tx[p].book_id] > 0
                                  THEN "BookAlreadyBorrowedException"
                                  ELSE "BookNotAvailableException"
                /\ UNCHANGED <<available_copies, borrowings>>
          /\ (CheckoutCompletes(p) /\ HoldsReturnedOnly(p)) => Reborrowed(p) ]_vars

\* A member has returned a book and borrowed it again.
C7_Witness ==
    /\ last.op = "create_borrowing" /\ last.result = "ok"
    /\ \E i \in 1..Len(borrowings) :
          /\ i # last.borrowing_id
          /\ borrowings[i].member = last.member_id
          /\ borrowings[i].book = last.book_id
          /\ borrowings[i].returned_at # Null

\* C8: a checkout for an existing member who is suspended or inactive fails
\* with MemberNotActive, creates no borrowing and leaves available_copies
\* unchanged.
C8_InactiveMemberRefused ==
    [][ \A p \in Procs :
          (/\ CheckoutCompletes(p)
           /\ tx[p].member_id \in MemberIds
           /\ membership_status[tx[p].member_id] # "active")
          => /\ last'.result = "MemberNotActiveException"
             /\ UNCHANGED <<available_copies, borrowings>> ]_vars

\* A suspended or inactive member was refused a book that has a copy.
C8_Witness ==
    /\ last.result = "MemberNotActiveException"
    /\ membership_status[last.member_id] \in {"suspended", "inactive"}
    /\ last.book_id \in BookIds
    /\ available_copies[last.book_id] > 0
    /\ borrowings = <<>>

\* The preconditions of CheckOut a call (m, b) violates in the current state,
\* each by its error kind.
ViolatedPreconditions(m, b) ==
    {e \in {"MemberNotFoundException", "MemberNotActiveException",
            "BookNotFoundException", "BookNotAvailableException"} :
        \/ e = "MemberNotFoundException" /\ ~MemberExists(m)
        \/ e = "MemberNotActiveException" /\ MemberExists(m)
                                          /\ membership_status[m] # "active"
        \/ e = "BookNotFoundException" /\ ~BookExists(b)
        \/ e = "BookNotAvailableException" /\ BookExists(b)
                                           /\ available_copies[b] <= 0}

PreconditionOrder ==
    <<"MemberNotFoundException", "MemberNotActiveException",
      "BookNotFoundException", "BookNotAvailableException">>

FirstViolated(V) ==
    PreconditionOrder[CHOOSE k \in 1..Len(PreconditionOrder) :
        /\ PreconditionOrder[k] \in V
        /\ \A j \in 1..(k - 1) : PreconditionOrder[j] \notin V]

\* C9: a checkout that violates one or more preconditions reports the first
\* violated one in the order member exists, member active, book exists, book
\* available, each by its own error kind.
C9_FirstViolatedPrecondition ==
    [][ \A p \in Procs :
          LET V == ViolatedPreconditions(tx[p].member_id, tx[p].book_id)
          IN  (CheckoutCompletes(p) /\ V # {}) => last'.result = FirstViolated(V) ]_vars

\* A checkout that named a missing member and a missing book was answered
\* MemberNotFound, or one by a member who is not active for a book without an
\* available copy was answered MemberNotActive.
C9_Witness ==
    \/ /\ last.result = "MemberNotFoundException"
       /\ last.book_id \notin BookIds
    \/ /\ last.result = "MemberNotActiveException"
       /\ last.book_id \in BookIds
       /\ available_copies[last.book_id] = 0

\* C10: a successful checkout lowers the book's available_copies by exactly 1,
\* and a successful return of the borrowing directly after it raises it by
\* exactly 1, back to its value before the checkout.
C10_RoundTrip ==
    /\ (last.op = "create_borrowing" /\ last.result = "ok")
       => available_copies[last.book_id] = last.before - 1
    /\ (last.op = "return_borrowing" /\ last.result = "ok"
                                     /\ last.round_trip_from # Null)
       => /\ available_copies[last.book_id] = last.round_trip_from
          /\ available_copies[last.book_id] = last.before + 1

\* A borrowing was returned directly after its checkout.
C10_Witness ==
    /\ last.op = "return_borrowing" /\ last.result = "ok"
    /\ last.round_trip_from # Null
    /\ membership_status[last.member_id] = "active"

\* ------------------------------------------------- the engine without restock
\* create_borrowing and return_borrowing under arbitrary callers, the books
\* touched by nothing else; the calls fall on the last day of the calendar.
InitEngine ==
    /\ Init
    /\ today = MaxDay

EngineNext ==
    \/ \E p \in Procs : CheckOut(p) /\ UNCHANGED results
    \/ \E p \in Procs : CreateBorrowing_LockMember(p) /\ UNCHANGED results
    \/ \E p \in Procs : CreateBorrowing_LockBook(p) /\ UNCHANGED results
    \/ \E p \in Procs : CreateBorrowing_Decrement(p) /\ UNCHANGED results
    \/ \E p \in Procs : CreateBorrowing_Insert(p) /\ UNCHANGED results
    \/ \E p \in Procs : Return(p) /\ UNCHANGED results
    \/ \E p \in Procs : ReturnBorrowing_LockBorrowing(p) /\ UNCHANGED results
    \/ \E p \in Procs : ReturnBorrowing_LockMember(p) /\ UNCHANGED results
    \/ \E p \in Procs : ReturnBorrowing_LockBook(p) /\ UNCHANGED results

SpecEngine == InitEngine /\ [][EngineNext]_vars

ReturnCompletes(p) == tx[p].op = "return_borrowing" /\ Completes(p)

\* C11: of two returns of one borrowing in sequence the first (the borrowing
\* is open) succeeds, sets returned_at and raises the book's available_copies
\* by exactly 1; the second (returned_at is set) fails with
\* BorrowingAlreadyReturned and leaves available_copies and the borrowing as
\* they are, so that both calls together increment exactly once.
C11_SecondReturnRefused ==
    [][ \A p \in Procs :
          LET i == tx[p].borrowing_id
              b == borrowings[i].book
          IN  (ReturnCompletes(p) /\ BorrowingExists(i))
              => IF borrowings[i].returned_at = Null
                 THEN /\ last'.result = "ok"
                      /\ borrowings'[i].returned_at # Null
                      /\ available_copies' =
                            [available_copies EXCEPT ![b] = @ + 1]
                 ELSE /\ last'.result = "BorrowingAlreadyReturnedException"
                      /\ UNCHANGED <<available_copies, borrowings, fines>> ]_vars

\* A borrowing was returned and its second return was refused; the book shows
\* every copy again.
C11_Witness ==
    /\ last.op = "return_borrowing"
    /\ last.result = "BorrowingAlreadyReturnedException"
    /\ borrowings[last.borrowing_id].returned_at # Null
    /\ Len(borrowings) = 1
    /\ available_copies[last.book_id] = total_copies[last.book_id]

\* --------------------------------------------------- concurrent return test
\* Every thread calls return_borrowing once and records what it got.  One
\* borrowing is open at the start, taken from a book whose other copies are
\* all available.
InitReturnContention ==
    /\ membership_status \in [MemberIds -> MEMBERSHIP_STATUS_CHOICES]
    /\ total_copies \in [BookIds -> 1..MaxCopies]
    /\ available_copies = [b \in BookIds |-> total_copies[b] - 1]
    /\ today \in 0..MaxDay
    /\ \E m \in MemberIds, b \in BookIds,
          due \in {0, today, today + DEFAULT_BORROW_PERIOD_DAYS} :
          borrowings = <<[member |-> m, book |-> b, due_date |-> due,
                          returned_at |-> Null]>>
    /\ \A i \in 1..Len(borrowings) :
          available_copies[borrowings[i].book] = total_copies[borrowings[i].book] - 1
    /\ fines = {}
    /\ locks = [p \in Procs |-> {}]
    /\ tx = [p \in Procs |-> IdleTx]
    /\ last = NoCall
    /\ results = [p \in Procs |-> NoCall]

ThreadReturns(p) ==
    /\ results[p] = NoCall
    /\ Return(p)
    /\ results' = [results EXCEPT ![p] =
                      [Pending(tx'[p]) EXCEPT !.borrowing_id = tx'[p].borrowing_id]]

ReturnContentionNext ==
    \/ \E p \in Procs : ThreadReturns(p)
    \/ \E p \in Procs : ReturnBorrowing_LockBorrowing(p) /\ ThreadRecords(p)
    \/ \E p \in Procs : ReturnBorrowing_LockMember(p) /\ ThreadRecords(p)
    \/ \E p \in Procs : ReturnBorrowing_LockBook(p) /\ ThreadRecords(p)

SpecReturnContention == InitReturnContention /\ [][ReturnContentionNext]_vars

\* The threads that called return_borrowing for borrowing i.
Returners(i) ==
    {p \in Procs : results[p].op = "return_borrowing" /\ results[p].borrowing_id = i}

\* C12: two or more concurrent returns of one open borrowing: exactly one
\* succeeds, every other fails with BorrowingAlreadyReturned, the book's
\* available_copies has been incremented exactly once (from total_copies - 1,
\* its value at the start) and the borrowing has at most one fine.
C12_ConcurrentReturns ==
    \A i \in 1..Len(borrowings) :
        (AllJoined /\ Cardinality(Returners(i)) >= 2)
        => /\ Cardinality(Succeeded(Returners(i))) = 1
           /\ \A p \in Returners(i) \ Succeeded(Returners(i)) :
                 results[p].result = "BorrowingAlreadyReturnedException"
           /\ borrowings[i].returned_at # Null
           /\ available_copies[borrowings[i].book] = total_copies[borrowings[i].book]
           /\ Cardinality(FineOf(i)) <= 1

\* Two threads have returned one overdue borrowing: one was refused and one
\* fine exists.
C12_Witness ==
    \E i \in 1..Len(borrowings) :
        /\ AllJoined
        /\ Cardinality(Returners(i)) >= 2
        /\ \E p \in Returners(i) :
              results[p].result = "BorrowingAlreadyReturnedException"
        /\ Cardinality(FineOf(i)) = 1

\* ------------------------------------------------------------------- fines
\* The engine called by one caller at a time, on the last day of a longer
\* calendar and with any due date of it, and the fine calculation called on
\* its own between the engine's calls.
FineDueDates == {Null} \cup (0..MaxFineDay)

InitFines ==
    /\ membership_status = [m \in MemberIds |-> "active"]
    /\ total_copies = [b \in BookIds |-> MaxCopies]
    /\ available_copies = total_copies
    /\ borrowings = <<>>
    /\ fines = {}
    /\ today = MaxFineDay
    /\ locks = [p \in Procs |-> {}]
    /\ tx = [p \in Procs |-> IdleTx]
    /\ last = NoCall
    /\ results = [p \in Procs |-> NoCall]

\* No other worker is inside a call.
Sequential(p) == \A q \in Procs \ {p} : tx[q].pc = "idle"

FinesCheckOut(p) ==
    /\ Sequential(p)
    /\ \E m \in MemberIds, b \in BookIds, due \in FineDueDates :
          CreateBorrowing_Call(p, m, b, due)

FinesReturn(p) == Sequential(p) /\ Return(p)

\* A call of BorrowingService.calculate_fine_amount(days_overdue).
CalculateFineAmount(p, days_overdue) ==
    /\ \A q \in Procs : tx[q].pc = "idle"
    /\ last' = [Summary("calculate_fine_amount", NoSuchId, NoSuchId, NoSuchId,
                        "ok", Null, Null)
                   EXCEPT !.days_overdue = days_overdue,
                          !.amount = calculate_fine_amount(days_overdue)]
    /\ UNCHANGED <<db, today, locks, tx>>

FinesNext ==
    \/ \E p \in Procs : FinesCheckOut(p) /\ UNCHANGED results
    \/ \E p \in Procs : CreateBorrowing_LockMember(p) /\ UNCHANGED results
    \/ \E p \in Procs : CreateBorrowing_LockBook(p) /\ UNCHANGED results
    \/ \E p \in Procs : CreateBorrowing_Decrement(p) /\ UNCHANGED results
    \/ \E p \in Procs : CreateBorrowing_Insert(p) /\ UNCHANGED results
    \/ \E p \in Procs : FinesReturn(p) /\ UNCHANGED results
    \/ \E p \in Procs : ReturnBorrowing_LockBorrowing(p) /\ UNCHANGED results
    \/ \E p \in Procs : ReturnBorrowing_LockMember(p) /\ UNCHANGED results
    \/ \E p \in Procs : ReturnBorrowing_LockBook(p) /\ UNCHANGED results
    \/ \E p \in Procs, d \in (0 - MaxFineDay)..MaxFineDay :
          CalculateFineAmount(p, d) /\ UNCHANGED results

SpecFines == InitFines /\ [][FinesNext]_vars

\* C13: the return of an open borrowing whose due date lies d > 0 days before
\* the return date creates exactly one fine for the borrowing: unpaid, of
\* d x 1.00 (100 cents a day), with a reason that names d ("5 days" for
\* d = 5); the call hands that fine back.
C13_OverdueReturnCreatesFine ==
    [][ \A p \in Procs :
          LET i == tx[p].borrowing_id
              d == today - borrowings[i].due_date
          IN  (/\ ReturnCompletes(p)
               /\ BorrowingExists(i)
               /\ borrowings[i].returned_at = Null
               /\ d > 0)
              => /\ last'.result = "ok"
                 /\ Cardinality(fines' \ fines) = 1
                 /\ fines \subseteq fines'
                 /\ \A f \in fines' \ fines :
                       /\ f.borrowing = i
                       /\ f.amount = d * 100
                       /\ f.is_paid = FALSE
                       /\ f.reason[2] = ToString(d)
                       /\ d = 5 => f.reason[2] \o f.reason[3] = "5 days"
                       /\ last'.fine = {f} ]_vars

\* A borrowing was returned five days late and fined 5.00.
C13_Witness ==
    /\ last.op = "return_borrowing" /\ last.result = "ok"
    /\ today - borrowings[last.borrowing_id].due_date = 5
    /\ \E f \in fines : f.borrowing = last.borrowing_id /\ f.amount = 500

\* C14: the return of an open borrowing whose due date is on or after the
\* return date produces no fine: the call hands back None and the Fine table
\* is left as it was.
C14_TimelyReturnNoFine ==
    [][ \A p \in Procs :
          LET i == tx[p].borrowing_id
          IN  (/\ ReturnCompletes(p)
               /\ BorrowingExists(i)
               /\ borrowings[i].returned_at = Null
               /\ borrowings[i].due_date >= today)
              => /\ last'.result = "ok"
                 /\ last'.fine = {}
                 /\ FineOf(i) = {}
                 /\ UNCHANGED fines ]_vars

\* A borrowing was returned on its due date, on a day later than day 0, and no
\* fine exists.
C14_Witness ==
    /\ last.op = "return_borrowing" /\ last.result = "ok"
    /\ today > 0
    /\ borrowings[last.borrowing_id].due_date = today
    /\ borrowings[last.borrowing_id].returned_at = today
    /\ last.fine = {}
    /\ fines = {}

\* C16: calculate_fine_amount(d) is 0 for every d <= 0 and d x 1.00 for every
\* d > 0, and the amount of the fine a return creates for d overdue days is
\* calculate_fine_amount(d).
C16_FineAmount ==
    /\ last.op = "calculate_fine_amount"
       => last.amount = IF last.days_overdue <= 0 THEN 0
                        ELSE last.days_overdue * 100
    /\ \A f \in fines :
          LET bw == borrowings[f.borrowing]
          IN  /\ bw.returned_at # Null
              /\ bw.returned_at - bw.due_date > 0
              /\ f.amount = calculate_fine_amount(bw.returned_at - bw.due_date)

\* The amount for a negative number of days was asked for while a fine for a
\* return several days late exists.
C16_Witness ==
    /\ last.op = "calculate_fine_amount"
    /\ last.days_overdue < -1
    /\ last.amount = 0
    /\ \E f \in fines : f.amount > FINE_RATE_PER_DAY

\* ---------------------------------------------------------- the Fine table
\* A Fine table without unique_fine_per_borrowing.
UniqueFinePerBorrowingAbsent(i) == TRUE

\* unique_fine_per_borrowing (and the one-to-one field) admits a fine for
\* borrowing i.
UniqueFinePerBorrowing(i) == FineOf(i) = {}

\* Fine.objects.create(borrowing=..., amount=..., reason='Duplicate attempt')
\* by hand, between the engine's calls: one INSERT, committed on its own.
Fine_Create(p, i, amount) ==
    /\ \A q \in Procs : tx[q].pc = "idle"
    /\ IF BorrowingExists(i) /\ UniqueFinePerBorrowing(i)
       THEN /\ fines' = fines \cup {[borrowing |-> i, amount |-> amount,
                                     reason |-> <<"Duplicate attempt">>,
                                     is_paid |-> FALSE]}
            /\ last' = Summary("Fine.objects.create", NoSuchId, NoSuchId, i,
                               "ok", Null, Null)
       ELSE /\ fines' = fines
            /\ last' = Summary("Fine.objects.create", NoSuchId, NoSuchId, i,
                               "IntegrityError", Null, Null)
    /\ UNCHANGED <<membership_status, total_copies, available_copies,
                   borrowings, today, locks, tx>>

FineTableNext ==
    \/ FinesNext
    \/ \E p \in Procs, i \in BorrowingIds :
          Fine_Create(p, i, 1000) /\ UNCHANGED results

SpecFineTable == InitFines /\ [][FineTableNext]_vars

\* C17: every borrowing has at most one fine; a return of a borrowing that has
\* a fine creates no second one, and an attempt to create another fine for a
\* borrowing that has one is rejected and leaves the Fine table as it was.
C17_OneFinePerBorrowing ==
    /\ [](\A i \in BorrowingIds : Cardinality(FineOf(i)) <= 1)
    /\ [][ /\ (/\ last' # last
               /\ last'.op = "Fine.objects.create"
               /\ FineOf(last'.borrowing_id) # {})
              => (last'.result = "IntegrityError" /\ UNCHANGED fines)
           /\ \A p \in Procs :
                 (/\ ReturnCompletes(p)
                  /\ BorrowingExists(tx[p].borrowing_id)
                  /\ FineOf(tx[p].borrowing_id) # {})
                 => UNCHANGED fines ]_vars

\* A second fine for a borrowing fined by its overdue return was refused.
C17_Witness ==
    /\ last.op = "Fine.objects.create"
    /\ last.result = "IntegrityError"
    /\ \E f \in fines :
          /\ f.borrowing = last.borrowing_id
          /\ f.amount = 5 * FINE_RATE_PER_DAY
          /\ borrowings[f.borrowing].returned_at # Null

\* ------------------------------------------------- BorrowingViewSet (the API)
\* The views run without a transaction: every save() and create() is a
\* statement committed on its own, and other requests run between them.
\* An is_overdue that does not look at returned_at.
Borrowing_is_overdue_IgnoringReturn(bw) == today > bw.due_date

\* Borrowing.is_overdue
Borrowing_is_overdue(bw) ==
    IF bw.returned_at # Null THEN FALSE ELSE today > bw.due_date

\* Borrowing.days_overdue
Borrowing_days_overdue(bw) ==
    IF ~Borrowing_is_overdue(bw) THEN 0 ELSE today - bw.due_date

\* Borrowing.status
Borrowing_status(bw) ==
    IF bw.returned_at # Null THEN "returned"
    ELSE IF Borrowing_is_overdue(bw) THEN "overdue"
    ELSE "active"

\* Requests that are creating a borrowing.
InFlightCreates ==
    {q \in Procs : tx[q].op \in {"create_borrowing", "BorrowingViewSet.create"}}

\* POST /borrowings/: serializer.is_valid(), BorrowingDetailSerializer.validate
\* reading the member, the book and the open borrowings of the pair.
ApiCreate_Validate(p, m, b, due) ==
    /\ tx[p].pc = "idle"
    /\ Len(borrowings) + Cardinality(InFlightCreates) < MaxBorrowings
    /\ IF \/ ~MemberExists(m)
          \/ membership_status[m] # "active"
          \/ ~BookExists(b)
          \/ available_copies[b] <= 0
          \/ OpenBorrowings(m, b) # {}
       THEN /\ last' = Summary("BorrowingViewSet.create", m, b, NoSuchId,
                               "ValidationError", Null, Null)
            /\ UNCHANGED <<db, today, locks, tx>>
       ELSE /\ tx' = [tx EXCEPT ![p] =
                        [IdleTx EXCEPT !.pc = "api_save_book",
                                       !.op = "BorrowingViewSet.create",
                                       !.member_id = m, !.book_id = b,
                                       !.due_date = due,
                                       !.book_total = total_copies[b],
                                       !.book_available = available_copies[b]]]
            /\ UNCHANGED <<db, today, locks, last>>

\* book.available_copies -= 1; book.save(): an UPDATE of every column from the
\* instance validate() read.  The request's record keeps the available_copies
\* the UPDATE wrote over.
ApiCreate_SaveBook(p) ==
    LET t == tx[p]
        b == t.book_id
    IN  /\ t.pc = "api_save_book"
        /\ ~RowLocked(BookRow(b))
        /\ total_copies' = [total_copies EXCEPT ![b] = t.book_total]
        /\ available_copies' =
              [available_copies EXCEPT ![b] = t.book_available - 1]
        /\ tx' = [tx EXCEPT ![p].pc = "api_insert",
                            ![p].overwritten = available_copies[b]]
        /\ UNCHANGED <<membership_status, borrowings, fines, today, locks, last>>

\* Borrowing.objects.create(...); an IntegrityError of the unique constraint is
\* caught by the view's except clause and answered 400.
ApiCreate_Insert(p) ==
    LET t == tx[p]
        m == t.member_id
        b == t.book_id
        id == Len(borrowings) + 1
    IN  /\ t.pc = "api_insert"
        /\ IF ~UniqueActiveBorrowing(m, b)
           THEN /\ last' = Summary(t.op, m, b, NoSuchId, "Http400", Null, Null)
                /\ UNCHANGED borrowings
           ELSE /\ borrowings' = Append(borrowings,
                        [member |-> m, book |-> b,
                         due_date |-> BorrowingSaveDueDate(t.due_date),
                         returned_at |-> Null])
                /\ last' = Summary(t.op, m, b, id, "ok", Null, Null)
        /\ tx' = [tx EXCEPT ![p] = IdleTx]
        /\ UNCHANGED <<membership_status, total_copies, available_copies,
                       fines, today, locks>>

\* POST /borrowings/{id}/return_book/: get_object() and the returned_at check.
ReturnBook_GetObject(p, i) ==
    /\ tx[p].pc = "idle"
    /\ IF ~BorrowingExists(i)
       THEN /\ last' = Summary("return_book", NoSuchId, NoSuchId, i, "Http404",
                               Null, Null)
            /\ UNCHANGED <<db, today, locks, tx>>
       ELSE IF borrowings[i].returned_at # Null
       THEN /\ last' = Summary("return_book", borrowings[i].member,
                               borrowings[i].book, i, "Http400", Null, Null)
            /\ UNCHANGED <<db, today, locks, tx>>
       ELSE /\ tx' = [tx EXCEPT ![p] =
                        [IdleTx EXCEPT !.pc = "rbk_save_borrowing",
                                       !.op = "return_book",
                                       !.borrowing_id = i,
                                       !.member_id = borrowings[i].member,
                                       !.book_id = borrowings[i].book,
                                       !.due_date = borrowings[i].due_date]]
            /\ UNCHANGED <<db, today, locks, last>>

\* borrowing.returned_at = timezone.now(); borrowing.save(): an UPDATE of every
\* column from the instance; then borrowing.book is fetched.
ReturnBook_SaveBorrowing(p) ==
    LET t == tx[p]
        i == t.borrowing_id
        b == t.book_id
    IN  /\ t.pc = "rbk_save_borrowing"
        /\ ~RowLocked(BorrowingRow(i))
        /\ borrowings' = [borrowings EXCEPT ![i] =
                             [member |-> t.member_id, book |-> b,
                              due_date |-> t.due_date, returned_at |-> today]]
        /\ tx' = [tx EXCEPT ![p].pc = "rbk_save_book",
                            ![p].book_total = total_copies[b],
                            ![p].book_available = available_copies[b]]
        /\ UNCHANGED <<membership_status, total_copies, available_copies,
                       fines, today, locks, last>>

\* The Fine table after the view's fine branch for the instance it holds:
\* if borrowing.is_overdue, Fine.objects.create at 0.50 a day.
ReturnBook_Fines(i, instance) ==
    IF Borrowing_is_overdue(instance) /\ FineOf(i) = {}
    THEN fines \cup {[borrowing |-> i,
                      amount |-> Borrowing_days_overdue(instance) * 50,
                      reason |-> <<"Overdue by ",
                                   ToString(Borrowing_days_overdue(instance)),
                                   " days">>,
                      is_paid |-> FALSE]}
    ELSE fines

\* borrowing.book.available_copies += 1; borrowing.book.save(): an UPDATE of
\* every column from the instance fetched earlier, refused by the check
\* constraint when it exceeds total_copies; then the fine branch.
ReturnBook_SaveBook(p) ==
    LET t == tx[p]
        i == t.borrowing_id
        b == t.book_id
        instance == [member |-> t.member_id, book |-> b,
                     due_date |-> t.due_date, returned_at |-> today]
    IN  /\ t.pc = "rbk_save_book"
        /\ ~RowLocked(BookRow(b))
        /\ IF t.book_available + 1 > t.book_total
           THEN /\ last' = Summary(t.op, t.member_id, b, i, "IntegrityError",
                                   Null, Null)
                /\ UNCHANGED <<total_copies, available_copies, fines>>
           ELSE /\ total_copies' = [total_copies EXCEPT ![b] = t.book_total]
                /\ available_copies' =
                      [available_copies EXCEPT ![b] = t.book_available + 1]
                /\ fines' = ReturnBook_Fines(i, instance)
                /\ last' = Summary(t.op, t.member_id, b, i, "ok",
                                   available_copies[b], Null)
        /\ tx' = [tx EXCEPT ![p] = IdleTx]
        /\ UNCHANGED <<membership_status, borrowings, today, locks>>

\* Every copy available, no borrowing yet, the last day of the calendar.
InitApi ==
    /\ Init
    /\ today = MaxDay
    /\ available_copies = total_copies

ApiNext ==
    \/ \E p \in Procs, m \in MemberIds \cup {NoSuchId},
          b \in BookIds \cup {NoSuchId}, due \in DueDates :
          ApiCreate_Validate(p, m, b, due) /\ UNCHANGED results
    \/ \E p \in Procs : ApiCreate_SaveBook(p) /\ UNCHANGED results
    \/ \E p \in Procs : ApiCreate_Insert(p) /\ UNCHANGED results
    \/ \E p \in Procs, i \in BorrowingIds :
          ReturnBook_GetObject(p, i) /\ UNCHANGED results
    \/ \E p \in Procs : ReturnBook_SaveBorrowing(p) /\ UNCHANGED results
    \/ \E p \in Procs : ReturnBook_SaveBook(p) /\ UNCHANGED results

SpecApi == InitApi /\ [][ApiNext]_vars

\* C15: return_book on an open borrowing whose due date lies d > 0 days in the
\* past succeeds, raises the book's available_copies by 1 and creates the fine
\* the engine's return creates for the borrowing: d x 1.00.
C15_ApiReturnFinesLikeEngine ==
    [][ \A p \in Procs :
          LET t == tx[p]
              i == t.borrowing_id
              b == t.book_id
              d == today - t.due_date
          IN  (t.pc = "rbk_save_book" /\ Completes(p) /\ d > 0)
              => /\ last'.result = "ok"
                 /\ available_copies'[b] = available_copies[b] + 1
                 /\ \E f \in fines' :
                       /\ f.borrowing = i
                       /\ f.amount = d * 100
                       /\ f \in FineGetOrCreate(i, d) ]_vars

\* No request is in progress.
Quiescent == \A p \in Procs : tx[p].pc = "idle"

BorrowingsOfBook(b) == {i \in 1..Len(borrowings) : borrowings[i].book = b}

\* C19: every write of available_copies by a checkout or a return, the API
\* endpoints included, is relative to the row as it is at write time (a
\* checkout's write lowers it by exactly 1, a return's write raises it by
\* exactly 1), so no decrement is lost: with k successful checkouts and no
\* return yet, from all copies available and without restock, available_copies
\* is total_copies - k.
C19_GuardedWritesOnly ==
    /\ [][ \A p \in Procs :
             LET b == tx[p].book_id
             IN  /\ (tx[p].pc = "api_save_book" /\ tx'[p].pc = "api_insert")
                    => available_copies'[b] = available_copies[b] - 1
                 /\ (tx[p].pc = "rbk_save_book" /\ Completes(p)
                                               /\ last'.result = "ok")
                    => available_copies'[b] = available_copies[b] + 1 ]_vars
    /\ [](\A b \in BookIds :
            (/\ Quiescent
             /\ \A i \in BorrowingsOfBook(b) : borrowings[i].returned_at = Null)
            => available_copies[b] = total_copies[b] - Cardinality(BorrowingsOfBook(b)))

\* ------------------------------------------------------------ lock ordering
\* Checkouts and returns of active members on fully stocked books, the store
\* granting a row lock to every transaction that keeps asking for it.
InitLocks ==
    /\ InitEngine
    /\ membership_status = [m \in MemberIds |-> "active"]
    /\ total_copies = [b \in BookIds |-> MaxCopies]
    /\ available_copies = total_copies

LocksCheckOut(p) ==
    \E m \in MemberIds, b \in BookIds : CreateBorrowing_Call(p, m, b, Null)

LocksNext ==
    \/ \E p \in Procs : LocksCheckOut(p) /\ UNCHANGED results
    \/ \E p \in Procs : CreateBorrowing_LockMember(p) /\ UNCHANGED results
    \/ \E p \in Procs : CreateBorrowing_LockBook(p) /\ UNCHANGED results
    \/ \E p \in Procs : CreateBorrowing_Decrement(p) /\ UNCHANGED results
    \/ \E p \in Procs : CreateBorrowing_Insert(p) /\ UNCHANGED results
    \/ \E p \in Procs : Return(p) /\ UNCHANGED results
    \/ \E p \in Procs : ReturnBorrowing_LockBorrowing(p) /\ UNCHANGED results
    \/ \E p \in Procs : ReturnBorrowing_LockMember(p) /\ UNCHANGED results
    \/ \E p \in Procs : ReturnBorrowing_LockBook(p) /\ UNCHANGED results

\* A transaction inside a method runs on: a statement that needs no lock is
\* executed, and a lock request is granted when the row is free again and
\* again (the store queues the waiters of a row).
LocksFairness ==
    \A p \in Procs :
        /\ SF_vars(CreateBorrowing_LockMember(p) /\ UNCHANGED results)
        /\ SF_vars(CreateBorrowing_LockBook(p) /\ UNCHANGED results)
        /\ WF_vars(CreateBorrowing_Decrement(p) /\ UNCHANGED results)
        /\ WF_vars(CreateBorrowing_Insert(p) /\ UNCHANGED results)
        /\ SF_vars(ReturnBorrowing_LockBorrowing(p) /\ UNCHANGED results)
        /\ SF_vars(ReturnBorrowing_LockMember(p) /\ UNCHANGED results)
        /\ SF_vars(ReturnBorrowing_LockBook(p) /\ UNCHANGED results)

SpecLocks == InitLocks /\ [][LocksNext]_vars /\ LocksFairness

\* The rows the next statement of p's method asks a lock for.
WantedRows(p) ==
    LET t == tx[p]
    IN  IF t.pc = "lock_member" /\ MemberExists(t.member_id)
        THEN {MemberRow(t.member_id)}
        ELSE IF t.pc = "lock_book" /\ BookExists(t.book_id)
        THEN {BookRow(t.book_id)}
        ELSE IF t.pc = "rb_lock_borrowing" /\ BorrowingExists(t.borrowing_id)
        THEN {BorrowingRow(t.borrowing_id)}
        ELSE IF t.pc = "rb_lock_member"
        THEN {MemberRow(t.member_id)}
        ELSE IF t.pc = "rb_lock_book"
        THEN {BookRow(t.book_id)}
        ELSE {}

\* p waits for a row lock that q holds.
WaitsFor(p, q) == p # q /\ WantedRows(p) \cap locks[q] # {}

\* Every transaction of S waits for a lock held inside S.
Deadlocked(S) == S # {} /\ \A p \in S : \E q \in S : WaitsFor(p, q)

\* C18: no interleaving of checkouts and returns deadlocks: no set of
\* transactions waits cyclically on each other's row locks; a checkout locks
\* the book only while it holds its member's lock and a return locks the book
\* only while it holds its borrowing's lock; and every started call eventually
\* commits or fails.
C18_NoDeadlock ==
    /\ [](\A S \in SUBSET Procs : ~Deadlocked(S))
    /\ [][ \A p \in Procs :
             /\ (tx[p].pc = "lock_book" /\ BookRow(tx[p].book_id) \in locks'[p])
                => MemberRow(tx[p].member_id) \in locks[p]
             /\ (tx[p].pc = "rb_lock_book" /\ tx'[p] # tx[p])
                => BorrowingRow(tx[p].borrowing_id) \in locks[p] ]_vars
    /\ \A p \in Procs : (tx[p].pc # "idle") ~> (tx[p].pc = "idle")

\* A checkout waits for its member's row while a return of a borrowing of the
\* same member and book holds that row and is about to lock the book.
C18_Witness ==
    \E p, q \in Procs :
        /\ tx[p].op = "create_borrowing" /\ tx[p].pc = "lock_member"
        /\ tx[q].op = "return_borrowing" /\ tx[q].pc = "rb_lock_book"
        /\ tx[p].member_id = tx[q].member_id
        /\ tx[p].book_id = tx[q].book_id
        /\ WaitsFor(p, q)

\* ------------------------------------------------------ MemberViewSet.destroy
\* The rows Member.delete() cascades to: the member's borrowings
\* (Borrowing.member, on_delete=CASCADE).
BorrowingsOfMember(m) == {i \in 1..Len(borrowings) : borrowings[i].member = m}

\* DELETE /members/{id}/: get_object(), then instance.delete(): the fines of
\* the member's borrowings, the borrowings and the member are deleted in one
\* transaction, which waits for the row locks of other transactions.
Member_Destroy(p, m) ==
    /\ tx[p].pc = "idle"
    /\ IF ~MemberExists(m)
       THEN /\ last' = Summary("MemberViewSet.destroy", m, NoSuchId, NoSuchId,
                               "Http404", Null, Null)
            /\ UNCHANGED <<db, today, locks, tx>>
       ELSE /\ ~RowLocked(MemberRow(m))
            /\ \A i \in BorrowingsOfMember(m) : ~RowLocked(BorrowingRow(i))
            /\ fines' = {f \in fines : f.borrowing \notin BorrowingsOfMember(m)}
            /\ borrowings' = [i \in 1..Len(borrowings) |->
                                 IF i \in BorrowingsOfMember(m)
                                 THEN DeletedBorrowing
                                 ELSE borrowings[i]]
            /\ membership_status' =
                  [x \in (DOMAIN membership_status) \ {m} |-> membership_status[x]]
            /\ last' = Summary("MemberViewSet.destroy", m, NoSuchId, NoSuchId,
                               "ok", Null, Null)
            /\ UNCHANGED <<total_copies, available_copies, today, locks, tx>>

DestroyNext ==
    \/ LocksNext
    \/ \E p \in Procs, m \in MemberIds : Member_Destroy(p, m) /\ UNCHANGED results

SpecDestroy == InitLocks /\ [][DestroyNext]_vars

\* C20: no step deletes a member that has an open borrowing: after every step
\* such a member is still in the store and so are all its borrowings, and a
\* delete request for it is refused.
C20_MemberWithOpenBorrowingKept ==
    [][ \A m \in MemberIds :
          (MemberExists(m) /\ \E b \in BookIds : OpenBorrowings(m, b) # {})
          => /\ m \in DOMAIN membership_status'
             /\ \A i \in BorrowingsOfMember(m) : borrowings'[i].member = m
             /\ (last' # last /\ last'.op = "MemberViewSet.destroy"
                              /\ last'.member_id = m)
                => last'.result # "ok" ]_vars

\* -------------------------------------------------------------- permissions
\* request.user: anonymous, or an authenticated user in any set of groups.
Groups == {"ADMIN", "LIBRARIAN", "MEMBER"}

AnonymousUser == [is_authenticated |-> FALSE, groups |-> {}]

\* The users of the tests: in no group, in one group, and a member who is
\* also an administrator.
UserGroups == {{}, {"MEMBER"}, {"ADMIN"}, {"LIBRARIAN"}, {"ADMIN", "MEMBER"}}

Users ==
    {AnonymousUser} \cup
    {[is_authenticated |-> TRUE, groups |-> g] : g \in UserGroups}

\* _user_in_group
user_in_group(user, group_name) ==
    IF ~user.is_authenticated THEN FALSE ELSE group_name \in user.groups

\* IsAdminOrLibrarian.has_permission
IsAdminOrLibrarian(user) ==
    user_in_group(user, "ADMIN") \/ user_in_group(user, "LIBRARIAN")

\* IsAuthenticated.has_permission
IsAuthenticated(user) == user.is_authenticated

MemberViewSet_get_permissions(action) ==
    IF action \in {"create", "update", "partial_update", "destroy",
                   "suspend", "activate"}
    THEN "IsAdminOrLibrarian"
    ELSE "IsAuthenticated"

BookViewSet_get_permissions(action) ==
    IF action \in {"create", "update", "partial_update", "destroy",
                   "increase_copies"}
    THEN "IsAdminOrLibrarian"
    ELSE "IsAuthenticated"

\* Borrowing actions open to every authenticated user.
BorrowingViewSet_get_permissions_AuthenticatedOnly(action) == "IsAuthenticated"

BorrowingViewSet_get_permissions(action) ==
    IF action \in {"create", "update", "partial_update", "destroy",
                   "return_book"}
    THEN "IsAdminOrLibrarian"
    ELSE "IsAuthenticated"

FineViewSet_get_permissions(action) ==
    IF action = "mark_as_paid" THEN "IsAdminOrLibrarian" ELSE "IsAuthenticated"

get_permissions(view, action) ==
    CASE view = "MemberViewSet" -> MemberViewSet_get_permissions(action)
      [] view = "BookViewSet" -> BookViewSet_get_permissions(action)
      [] view = "BorrowingViewSet" -> BorrowingViewSet_get_permissions(action)
      [] view = "FineViewSet" -> FineViewSet_get_permissions(action)

has_permission(permission, user) ==
    IF permission = "IsAdminOrLibrarian"
    THEN IsAdminOrLibrarian(user)
    ELSE IsAuthenticated(user)

\* The request a client sends: who asks, and for which action of which view.
Request(user, view, action) == [user |-> user, view |-> view, action |-> action]

NoRequest == Request(AnonymousUser, "none", "none")

\* The answer to a request whose permission check fails: 401 without
\* credentials, 403 with them.
PermissionDenied(user) == IF user.is_authenticated THEN "Http403" ELSE "Http401"

\* A request reaches the view: the permissions of the action are checked
\* before its handler runs.  One request is served at a time.
Dispatch(user, view, action, handler) ==
    /\ \A p \in Procs : tx[p].pc = "idle"
    /\ results' = Request(user, view, action)
    /\ IF has_permission(get_permissions(view, action), user)
       THEN handler
       ELSE /\ last' = Summary(action, NoSuchId, NoSuchId, NoSuchId,
                               PermissionDenied(user), Null, Null)
            /\ UNCHANGED <<db, today, locks, tx>>

\* MemberViewSet.suspend / MemberViewSet.activate up to member.save():
\* get_object() reads the committed row and takes no lock.
Member_SetStatus(p, m, op, status) ==
    /\ tx[p].pc = "idle"
    /\ IF ~MemberExists(m)
       THEN /\ last' = Summary(op, m, NoSuchId, NoSuchId, "Http404", Null, Null)
            /\ UNCHANGED <<db, today, locks, tx>>
       ELSE /\ tx' = [tx EXCEPT ![p] =
                        [IdleTx EXCEPT !.pc = "member_save", !.op = op,
                                       !.member_id = m]]
            /\ UNCHANGED <<db, today, locks, last>>

\* member.save(): an UPDATE of the row with the new membership_status (an
\* INSERT when the row is gone); it waits for the row's lock.
Member_Save(p) ==
    LET t == tx[p]
        m == t.member_id
        status == IF t.op = "suspend" THEN "suspended" ELSE "active"
    IN  /\ t.pc = "member_save"
        /\ ~RowLocked(MemberRow(m))
        /\ membership_status' =
              [x \in (DOMAIN membership_status) \cup {m} |->
                  IF x = m THEN status ELSE membership_status[x]]
        /\ tx' = [tx EXCEPT ![p] = IdleTx]
        /\ last' = Summary(t.op, m, NoSuchId, NoSuchId, "ok", Null, Null)
        /\ UNCHANGED <<total_copies, available_copies, borrowings, fines,
                       today, locks>>

Member_Suspend(p, m) == Member_SetStatus(p, m, "suspend", "suspended")

Member_Activate(p, m) == Member_SetStatus(p, m, "activate", "active")

\* POST /members/: a new row under a fresh id, membership_status as given.
Member_Create(p, m, status) ==
    /\ tx[p].pc = "idle"
    /\ ~MemberExists(m)
    /\ membership_status' =
          [x \in (DOMAIN membership_status) \cup {m} |->
              IF x = m THEN status ELSE membership_status[x]]
    /\ last' = Summary("MemberViewSet.create", m, NoSuchId, NoSuchId, "ok",
                       Null, Null)
    /\ UNCHANGED <<total_copies, available_copies, borrowings, fines,
                   today, locks, tx>>

\* BookSerializer.validate_total_copies and BookSerializer.validate
BookSerializerValid(total, available) ==
    total >= 1 /\ available >= 0 /\ available <= total

\* POST /books/: a new row under a fresh id.
Book_Create(p, b, total, available) ==
    /\ tx[p].pc = "idle"
    /\ ~BookExists(b)
    /\ IF ~BookSerializerValid(total, available)
       THEN /\ last' = Summary("BookViewSet.create", NoSuchId, b, NoSuchId,
                               "ValidationError", Null, Null)
            /\ UNCHANGED <<db, today, locks, tx>>
       ELSE /\ total_copies' =
                  [x \in (DOMAIN total_copies) \cup {b} |->
                      IF x = b THEN total ELSE total_copies[x]]
            /\ available_copies' =
                  [x \in (DOMAIN available_copies) \cup {b} |->
                      IF x = b THEN available ELSE available_copies[x]]
            /\ last' = Summary("BookViewSet.create", NoSuchId, b, NoSuchId,
                               "ok", Null, Null)
            /\ UNCHANGED <<membership_status, borrowings, fines, today,
                           locks, tx>>

\* PUT /books/{id}/: get_object(), the serializer's validation, save().
Book_Update(p, b, total, available) ==
    /\ tx[p].pc = "idle"
    /\ IF ~BookExists(b)
       THEN /\ last' = Summary("BookViewSet.update", NoSuchId, b, NoSuchId,
                               "Http404", Null, Null)
            /\ UNCHANGED <<db, today, locks, tx>>
       ELSE IF ~BookSerializerValid(total, available)
       THEN /\ last' = Summary("BookViewSet.update", NoSuchId, b, NoSuchId,
                               "ValidationError", Null, Null)
            /\ UNCHANGED <<db, today, locks, tx>>
       ELSE /\ ~RowLocked(BookRow(b))
            /\ total_copies' = [total_copies EXCEPT ![b] = total]
            /\ available_copies' = [available_copies EXCEPT ![b] = available]
            /\ last' = Summary("BookViewSet.update", NoSuchId, b, NoSuchId,
                               "ok", available_copies[b], Null)
            /\ UNCHANGED <<membership_status, borrowings, fines, today,
                           locks, tx>>

\* POST /fines/{id}/mark_as_paid/, the fine named by its borrowing:
\* get_object(), is_paid = True, save().
Fine_MarkAsPaid(p, i) ==
    /\ tx[p].pc = "idle"
    /\ IF FineOf(i) = {}
       THEN /\ last' = Summary("mark_as_paid", NoSuchId, NoSuchId, i, "Http404",
                               Null, Null)
            /\ UNCHANGED <<db, today, locks, tx>>
       ELSE /\ fines' = (fines \ FineOf(i)) \cup
                        {[f EXCEPT !.is_paid = TRUE] : f \in FineOf(i)}
            /\ last' = Summary("mark_as_paid", NoSuchId, NoSuchId, i, "ok",
                               Null, Null)
            /\ UNCHANGED <<membership_status, total_copies, available_copies,
                           borrowings, today, locks, tx>>

\* A library with one active member and no book yet, or with a fully stocked
\* book that the member returned a day late and was fined for.
InitRbac ==
    /\ membership_status = [m \in {1} |-> "active"]
    /\ \/ /\ total_copies = [b \in {} |-> 0]
          /\ borrowings = <<>>
          /\ fines = {}
       \/ /\ total_copies = [b \in BookIds |-> MaxCopies]
          /\ borrowings = <<[member |-> 1, book |-> 1, due_date |-> MaxDay - 1,
                             returned_at |-> MaxDay]>>
          /\ fines = {[borrowing |-> 1, amount |-> FINE_RATE_PER_DAY,
                       reason |-> FineReason(1), is_paid |-> FALSE]}
    /\ available_copies = total_copies
    /\ today = MaxDay
    /\ locks = [p \in Procs |-> {}]
    /\ tx = [p \in Procs |-> IdleTx]
    /\ last = NoCall
    /\ results = NoRequest

RbacNext ==
    \/ \E user \in Users :
          Dispatch(user, "BorrowingViewSet", "create",
                   \E p \in Procs, m \in MemberIds, b \in BookIds :
                      ApiCreate_Validate(p, m, b, Null))
    \/ \E p \in Procs : ApiCreate_SaveBook(p) /\ UNCHANGED results
    \/ \E p \in Procs : ApiCreate_Insert(p) /\ UNCHANGED results
    \/ \E user \in Users :
          Dispatch(user, "BorrowingViewSet", "return_book",
                   \E p \in Procs, i \in BorrowingIds : ReturnBook_GetObject(p, i))
    \/ \E p \in Procs : ReturnBook_SaveBorrowing(p) /\ UNCHANGED results
    \/ \E p \in Procs : ReturnBook_SaveBook(p) /\ UNCHANGED results
    \/ \E user \in Users :
          Dispatch(user, "BookViewSet", "create",
                   \E p \in Procs, b \in BookIds,
                      total \in 0..MaxCopies, available \in 0..MaxCopies :
                      Book_Create(p, b, total, available))
    \/ \E user \in Users :
          Dispatch(user, "BookViewSet", "update",
                   \E p \in Procs, b \in BookIds,
                      total \in 0..MaxCopies, available \in 0..MaxCopies :
                      Book_Update(p, b, total, available))
    \/ \E user \in Users :
          Dispatch(user, "BookViewSet", "increase_copies",
                   \E p \in Procs, b \in BookIds, quantity \in 0..MaxQuantity :
                      IncreaseCopies_Read(p, b, quantity))
    \/ \E p \in Procs : IncreaseCopies_Save(p) /\ UNCHANGED results
    \/ \E user \in Users :
          Dispatch(user, "MemberViewSet", "create",
                   \E p \in Procs, m \in MemberIds : Member_Create(p, m, "active"))
    \/ \E user \in Users :
          Dispatch(user, "MemberViewSet", "suspend",
                   \E p \in Procs, m \in MemberIds : Member_Suspend(p, m))
    \/ \E user \in Users :
          Dispatch(user, "MemberViewSet", "activate",
                   \E p \in Procs, m \in MemberIds : Member_Activate(p, m))
    \/ \E p \in Procs : Member_Save(p) /\ UNCHANGED results
    \/ \E user \in Users :
          Dispatch(user, "FineViewSet", "mark_as_paid",
                   \E p \in Procs, i \in BorrowingIds : Fine_MarkAsPaid(p, i))

SpecRbac == InitRbac /\ [][RbacNext]_vars

\* C21: borrowing creation, return_book, book create, update and
\* increase_copies, member create, suspend and activate, and fine mark_as_paid
\* change the members, books, borrowings and fines only in the service of a
\* request whose user is in the ADMIN or the LIBRARIAN group; such a request is
\* not turned away by the permission check; and the same request by any other
\* user (only in MEMBER, in no group, unauthenticated) is answered 401 or 403,
\* starts no handler and changes none of the tables.
C21_AdminOrLibrarianOnly ==
    [][ /\ tables' # tables => IsAdminOrLibrarian(results'.user)
        /\ (Quiescent /\ ~IsAdminOrLibrarian(results'.user))
           => /\ last'.result \in {"Http401", "Http403"}
              /\ UNCHANGED <<tables, tx>>
        /\ (Quiescent /\ IsAdminOrLibrarian(results'.user))
           => \/ last'.result \notin {"Http401", "Http403"}
              \/ \E p \in Procs : tx'[p].pc # "idle" ]_vars

\* A user who is only in the MEMBER group was refused the checkout of an
\* available book for an active member, after a librarian's checkout of the
\* same kind had gone through.
C21_Witness ==
    /\ results = Request([is_authenticated |-> TRUE, groups |-> {"MEMBER"}],
                         "BorrowingViewSet", "create")
    /\ last.result = "Http403"
    /\ \E m \in DOMAIN membership_status, b \in DOMAIN total_copies :
          /\ membership_status[m] = "active"
          /\ available_copies[b] > 0
          /\ OpenBorrowings(m, b) = {}
    /\ \E i \in 1..Len(borrowings) : borrowings[i].returned_at = Null

\* ------------------------------------------------- the engine and the restock
\* Checkouts, returns and restocks from a library in which every copy is
\* available and no borrowing exists: for every book, available_copies plus
\* the number of its open borrowings equals total_copies.
SpecRestock == InitContention /\ [][Next]_vars

\* The return completing in this step processes an open borrowing.
ReturnsOpenBorrowing(p) ==
    /\ tx[p].pc = "rb_lock_book"
    /\ Completes(p)
    /\ borrowings[tx[p].borrowing_id].returned_at = Null

\* C22: whenever a return processes an open borrowing, the guard of its
\* increment, available_copies < total_copies, holds: the increment is never
\* skipped.
C22_ReturnGuardHolds ==
    [][ \A p \in Procs :
          ReturnsOpenBorrowing(p)
          => /\ available_copies[tx[p].book_id] < total_copies[tx[p].book_id]
             /\ available_copies'[tx[p].book_id] =
                   available_copies[tx[p].book_id] + 1 ]_vars

\* The book's copies as they were before the return of an open borrowing
\* completes in this step.
SkipsIncrement(p) ==
    /\ ReturnsOpenBorrowing(p)
    /\ available_copies[tx[p].book_id] = total_copies[tx[p].book_id]

\* C23: a return that processes an open borrowing of a book whose
\* available_copies equals total_copies raises no error: returned_at is set,
\* available_copies and total_copies stay as they are, and the call returns
\* normally, with a fine exactly when the borrowing is overdue.
C23_GuardFailureSkipsIncrement ==
    [][ \A p \in Procs :
          LET i == tx[p].borrowing_id
          IN  SkipsIncrement(p)
              => /\ last'.result = "ok"
                 /\ borrowings'[i].returned_at = today
                 /\ UNCHANGED <<available_copies, total_copies>>
                 /\ (today > borrowings[i].due_date)
                    <=> (last'.fine # {} /\ last'.fine = {f \in fines' : f.borrowing = i}) ]_vars

\* An overdue borrowing was returned to a book that showed every copy
\* available: the book is unchanged and the borrowing is fined.
C23_Witness ==
    /\ last.op = "return_borrowing" /\ last.result = "ok"
    /\ last.before = total_copies[last.book_id]
    /\ available_copies[last.book_id] = total_copies[last.book_id]
    /\ borrowings[last.borrowing_id].returned_at = today
    /\ today > borrowings[last.borrowing_id].due_date
    /\ last.fine # {}

\* The restock completing in this step, and its book.
RestockCommits(p) == tx[p].pc = "save" /\ Completes(p)

\* C27: conservation of copies: in every state reached by checkouts, returns
\* and restocks, every book's available_copies plus the number of its open
\* borrowings equals its total_copies, and a restock of q raises total_copies
\* and available_copies by exactly q over their values at its commit.
C27_Conservation ==
    /\ [](\A b \in BookIds :
            available_copies[b] + Cardinality(OpenBorrowingsOfBook(b))
               = total_copies[b])
    /\ [][ \A p \in Procs :
             LET b == tx[p].book_id
             IN  RestockCommits(p)
                 => /\ total_copies'[b] = total_copies[b] + tx[p].quantity
                    /\ available_copies'[b] =
                          available_copies[b] + tx[p].quantity ]_vars

\* ------------------------------------------------- a fine that exists already
\* The engine called by one caller at a time, and between its calls fines
\* created by hand and fines marked as paid.
ExistingFineNext ==
    \/ \E p \in Procs : FinesCheckOut(p) /\ UNCHANGED results
    \/ \E p \in Procs : CreateBorrowing_LockMember(p) /\ UNCHANGED results
    \/ \E p \in Procs : CreateBorrowing_LockBook(p) /\ UNCHANGED results
    \/ \E p \in Procs : CreateBorrowing_Decrement(p) /\ UNCHANGED results
    \/ \E p \in Procs : CreateBorrowing_Insert(p) /\ UNCHANGED results
    \/ \E p \in Procs : FinesReturn(p) /\ UNCHANGED results
    \/ \E p \in Procs : ReturnBorrowing_LockBorrowing(p) /\ UNCHANGED results
    \/ \E p \in Procs : ReturnBorrowing_LockMember(p) /\ UNCHANGED results
    \/ \E p \in Procs : ReturnBorrowing_LockBook(p) /\ UNCHANGED results
    \/ \E p \in Procs, i \in BorrowingIds :
          Fine_Create(p, i, 1000) /\ UNCHANGED results
    \/ \E p \in Procs, i \in BorrowingIds :
          Quiescent /\ Fine_MarkAsPaid(p, i) /\ UNCHANGED results

SpecExistingFine == InitFines /\ [][ExistingFineNext]_vars

\* C24: the return of an overdue open borrowing that has a fine already
\* succeeds and hands back that fine, its amount, reason and paid flag as they
\* were, and the Fine table is left as it was: no second fine.
C24_ExistingFineReturned ==
    [][ \A p \in Procs :
          LET i == tx[p].borrowing_id
          IN  (/\ ReturnsOpenBorrowing(p)
               /\ today > borrowings[i].due_date
               /\ FineOf(i) # {})
              => /\ last'.result = "ok"
                 /\ last'.fine = FineOf(i)
                 /\ UNCHANGED fines ]_vars

\* An overdue borrowing whose fine had been created by hand and paid was
\* returned, and the call handed back that fine.
C24_Witness ==
    /\ last.op = "return_borrowing" /\ last.result = "ok"
    /\ today > borrowings[last.borrowing_id].due_date
    /\ \E f \in last.fine :
          /\ f.reason = <<"Duplicate attempt">>
          /\ f.amount = 1000
          /\ f.is_paid
    /\ last.fine = FineOf(last.borrowing_id)

\* ------------------------------------------------------------------ the clock
\* Borrowing.objects.create(...) reads the clock twice: Borrowing.save() for
\* the default due_date, then the INSERT for borrowed_at (auto_now_add).
\* First Borrowing.save() up to super().save().
Borrowing_save(p) ==
    /\ tx[p].pc = "insert"
    /\ tx' = [tx EXCEPT ![p].pc = "insert_row",
                        ![p].instance_due_date = BorrowingSaveDueDate(tx[p].due_date)]
    /\ UNCHANGED <<db, today, locks, last>>

\* super().save(): the INSERT with borrowed_at = now, the IntegrityError
\* translation, and the commit at the exit of transaction.atomic.
Borrowing_super_save(p) ==
    LET t == tx[p]
        m == t.member_id
        b == t.book_id
        id == Len(borrowings) + 1
    IN  /\ t.pc = "insert_row"
        /\ IF ~UniqueActiveBorrowing(m, b)
           THEN Raise(p, "BookAlreadyBorrowedException")
           ELSE /\ borrowings' = Append(borrowings,
                        [member |-> m, book |-> b,
                         due_date |-> t.instance_due_date,
                         returned_at |-> Null,
                         borrowed_at |-> today])
                /\ available_copies' = [available_copies EXCEPT ![b] = t.uncommitted]
                /\ tx' = [tx EXCEPT ![p] = IdleTx]
                /\ locks' = [locks EXCEPT ![p] = {}]
                /\ last' = Summary(t.op, m, b, id, "ok", available_copies[b], Null)
                /\ UNCHANGED <<membership_status, total_copies, fines, today>>

\* Midnight passes, up to the last day of a calendar.
ClockTickUntil(day) ==
    /\ today < day
    /\ today' = today + 1
    /\ UNCHANGED <<db, locks, tx, last>>

ClockTick == ClockTickUntil(MaxDay)

\* Active members, fully stocked books, the first day of the calendar.
InitClock ==
    /\ Init
    /\ membership_status = [m \in MemberIds |-> "active"]
    /\ total_copies = [b \in BookIds |-> MaxCopies]
    /\ available_copies = total_copies
    /\ today = 0

ClockNext ==
    \/ \E p \in Procs, m \in MemberIds, b \in BookIds, due \in DueDates :
          CreateBorrowing_Call(p, m, b, due) /\ UNCHANGED results
    \/ \E p \in Procs : CreateBorrowing_LockMember(p) /\ UNCHANGED results
    \/ \E p \in Procs : CreateBorrowing_LockBook(p) /\ UNCHANGED results
    \/ \E p \in Procs : CreateBorrowing_Decrement(p) /\ UNCHANGED results
    \/ \E p \in Procs : Borrowing_save(p) /\ UNCHANGED results
    \/ \E p \in Procs : Borrowing_super_save(p) /\ UNCHANGED results
    \/ ClockTick /\ UNCHANGED results

SpecClock == InitClock /\ [][ClockNext]_vars

\* C25: a successful checkout called without a due date stores the calendar
\* date of the borrowing's own borrowed_at plus 14 days as its due_date, also
\* when the clock advances between the steps of the call; one called with a
\* due date stores the given date.
C25_DueDateFromBorrowedAt ==
    [][ \A p \in Procs :
          (tx[p].pc = "insert_row" /\ Completes(p) /\ last'.result = "ok")
          => LET bw == borrowings'[Len(borrowings')]
             IN  IF tx[p].due_date = Null
                 THEN bw.due_date = bw.borrowed_at + DEFAULT_BORROW_PERIOD_DAYS
                 ELSE bw.due_date = tx[p].due_date ]_vars

\* ----------------------------------------------------------- derived fields
\* GET /borrowings/{id}/: the derived fields as the serializer reads them
\* from the row on the current date.
Borrowing_Retrieve(p, i) ==
    /\ Quiescent
    /\ BorrowingExists(i)
    /\ last' = [op |-> "retrieve", borrowing_id |-> i, result |-> "ok",
                date |-> today, instance |-> borrowings[i],
                status |-> Borrowing_status(borrowings[i]),
                is_overdue |-> Borrowing_is_overdue(borrowings[i]),
                days_overdue |-> Borrowing_days_overdue(borrowings[i])]
    /\ UNCHANGED <<db, today, locks, tx>>

\* One open borrowing with any due date of the longer calendar, on its first
\* day.
InitDerived ==
    /\ membership_status = [m \in MemberIds |-> "active"]
    /\ total_copies = [b \in BookIds |-> MaxCopies]
    /\ available_copies = [b \in BookIds |-> MaxCopies - 1]
    /\ \E due \in 0..MaxFineDay :
          borrowings = <<[member |-> 1, book |-> 1, due_date |-> due,
                          returned_at |-> Null]>>
    /\ fines = {}
    /\ today = 0
    /\ locks = [p \in Procs |-> {}]
    /\ tx = [p \in Procs |-> IdleTx]
    /\ last = NoCall
    /\ results = [p \in Procs |-> NoCall]

DerivedNext ==
    \/ \E p \in Procs : FinesReturn(p) /\ UNCHANGED results
    \/ \E p \in Procs : ReturnBorrowing_LockBorrowing(p) /\ UNCHANGED results
    \/ \E p \in Procs : ReturnBorrowing_LockMember(p) /\ UNCHANGED results
    \/ \E p \in Procs : ReturnBorrowing_LockBook(p) /\ UNCHANGED results
    \/ ClockTickUntil(MaxFineDay) /\ UNCHANGED results
    \/ \E p \in Procs, i \in BorrowingIds :
          Borrowing_Retrieve(p, i) /\ UNCHANGED results

SpecDerived == InitDerived /\ [][DerivedNext]_vars

\* The derived fields of a row on a date agree with each other.
DerivedFieldsAgree(bw, date, status, is_overdue, days_overdue) ==
    /\ (status = "returned") <=> (bw.returned_at # Null)
    /\ bw.returned_at = Null
       => /\ (status = "overdue") <=> (date > bw.due_date)
          /\ (status = "active") <=> ~(date > bw.due_date)
    /\ is_overdue <=> (status = "overdue")
    /\ is_overdue <=> (days_overdue > 0)
    /\ days_overdue = IF bw.returned_at = Null
                      THEN Max(date - bw.due_date, 0)
                      ELSE 0

\* C26: for every borrowing and every current date, status is 'returned' iff
\* returned_at is set, otherwise 'overdue' iff today > due_date, otherwise
\* 'active'; is_overdue holds iff status is 'overdue' iff days_overdue > 0;
\* and days_overdue is max(today - due_date, 0) when not returned and 0 when
\* returned.  So are the fields a retrieve read from the row on its date.
C26_DerivedFieldsAgree ==
    /\ \A i \in 1..Len(borrowings) :
          DerivedFieldsAgree(borrowings[i], today,
                             Borrowing_status(borrowings[i]),
                             Borrowing_is_overdue(borrowings[i]),
                             Borrowing_days_overdue(borrowings[i]))
    /\ last.op = "retrieve"
       => DerivedFieldsAgree(last.instance, last.date, last.status,
                             last.is_overdue, last.days_overdue)

\* A borrowing returned after its due date was retrieved on a later day: it
\* reads returned, not overdue, with no overdue days.
C26_Witness ==
    /\ last.op = "retrieve"
    /\ last.status = "returned"
    /\ ~last.is_overdue
    /\ last.days_overdue = 0
    /\ borrowings[last.borrowing_id].returned_at > borrowings[last.borrowing_id].due_date
    /\ today > borrowings[last.borrowing_id].returned_at

\* ------------------------------------------------------- suspend and activate
\* Checkouts interleaved with suspensions and activations of their members;
\* every copy available, no borrowing yet.
SuspendNext ==
    \/ \E p \in Procs : LocksCheckOut(p) /\ UNCHANGED results
    \/ \E p \in Procs : CreateBorrowing_LockMember(p) /\ UNCHANGED results
    \/ \E p \in Procs : CreateBorrowing_LockBook(p) /\ UNCHANGED results
    \/ \E p \in Procs : CreateBorrowing_Decrement(p) /\ UNCHANGED results
    \/ \E p \in Procs : CreateBorrowing_Insert(p) /\ UNCHANGED results
    \/ \E p \in Procs, m \in MemberIds : Member_Suspend(p, m) /\ UNCHANGED results
    \/ \E p \in Procs, m \in MemberIds : Member_Activate(p, m) /\ UNCHANGED results
    \/ \E p \in Procs : Member_Save(p) /\ UNCHANGED results

SpecSuspend == InitApi /\ [][SuspendNext]_vars

\* p is a checkout that has read member m under the row lock and has not yet
\* committed or failed.
HoldsMemberLock(p, m) ==
    /\ tx[p].op = "create_borrowing"
    /\ tx[p].member_id = m
    /\ MemberRow(m) \in locks[p]

\* C28: under every interleaving of checkouts with suspend and activate, a
\* checkout that succeeds read its member as active under the member row lock,
\* no status change of that member commits between that read and the
\* checkout's commit, and so the member is active, not suspended, when the
\* borrowing is created.
C28_NoCheckoutForSuspendedMember ==
    [][ /\ \A p \in Procs :
             (tx[p].pc = "lock_member" /\ tx'[p].pc = "lock_book")
             => /\ membership_status[tx[p].member_id] = "active"
                /\ HoldsMemberLock(p, tx[p].member_id)'
        /\ \A p \in Procs, m \in MemberIds :
             HoldsMemberLock(p, m)
             => /\ membership_status[m] = "active"
                /\ membership_status'[m] = membership_status[m]
        /\ \A p \in Procs :
             (CheckoutCompletes(p) /\ last'.result = "ok")
             => /\ HoldsMemberLock(p, tx[p].member_id)
                /\ membership_status'[tx[p].member_id] = "active" ]_vars

\* A suspension of a member waits at its save() while a checkout for that
\* member, past its status check, holds the member's row.
C28_Witness ==
    \E p, q \in Procs :
        /\ tx[q].pc = "member_save" /\ tx[q].op = "suspend"
        /\ HoldsMemberLock(p, tx[q].member_id)
        /\ tx[p].pc = "insert"

\* ------------------------------------------------ errors of POST /borrowings/
\* C29: a POST /borrowings/ request that ends in an error response has left
\* the book's available_copies and the borrowings unchanged: its last step
\* changes neither, and the value its own save() wrote is the value that save
\* wrote over; also when two requests for one member and book run
\* concurrently, both pass validation and one fails on the unique constraint.
C29_ApiErrorChangesNothing ==
    [][ /\ (last' # last /\ last'.op = "BorrowingViewSet.create"
                         /\ last'.result # "ok")
           => UNCHANGED <<available_copies, borrowings>>
        /\ \A p \in Procs :
             (tx[p].pc = "api_insert" /\ Completes(p) /\ last'.result # "ok")
             => tx[p].overwritten = tx[p].book_available - 1 ]_vars

\* ------------------------------------------------- returned borrowings stay
\* Checkouts and returns of active members on stocked books while the days
\* pass: a later call falls on a later day than the return before it.
ReturnedNext ==
    \/ \E p \in Procs, m \in MemberIds, b \in BookIds :
          CreateBorrowing_Call(p, m, b, Null) /\ UNCHANGED results
    \/ \E p \in Procs : CreateBorrowing_LockMember(p) /\ UNCHANGED results
    \/ \E p \in Procs : CreateBorrowing_LockBook(p) /\ UNCHANGED results
    \/ \E p \in Procs : CreateBorrowing_Decrement(p) /\ UNCHANGED results
    \/ \E p \in Procs : CreateBorrowing_Insert(p) /\ UNCHANGED results
    \/ \E p \in Procs : Return(p) /\ UNCHANGED results
    \/ \E p \in Procs : ReturnBorrowing_LockBorrowing(p) /\ UNCHANGED results
    \/ \E p \in Procs : ReturnBorrowing_LockMember(p) /\ UNCHANGED results
    \/ \E p \in Procs : ReturnBorrowing_LockBook(p) /\ UNCHANGED results
    \/ ClockTick /\ UNCHANGED results

SpecReturned == InitClock /\ [][ReturnedNext]_vars

\* C30: once a return has set a borrowing's returned_at, no later checkout or
\* return changes or clears it and the borrowing is never open again (its row
\* stays as it is, and no row disappears); a later successful checkout of the
\* same book by the same member creates a new record with an identity no
\* earlier record has.
C30_ReturnedStaysReturned ==
    [][ /\ Len(borrowings') >= Len(borrowings)
        /\ \A i \in 1..Len(borrowings) :
              borrowings[i].returned_at # Null => borrowings'[i] = borrowings[i]
        /\ \A p \in Procs :
              (CheckoutCompletes(p) /\ last'.result = "ok")
              => /\ last'.borrowing_id \notin 1..Len(borrowings)
                 /\ last'.borrowing_id = Len(borrowings')
                 /\ borrowings'[last'.borrowing_id].member = tx[p].member_id
                 /\ borrowings'[last'.borrowing_id].book = tx[p].book_id
                 /\ borrowings'[last'.borrowing_id].returned_at = Null ]_vars

\* A borrowing was returned on the first day; the member has borrowed the book
\* again, and a return of the old borrowing was refused on a later day, its
\* returned_at still the first day.
C30_Witness ==
    /\ last.op = "return_borrowing"
    /\ last.result = "BorrowingAlreadyReturnedException"
    /\ BorrowingExists(last.borrowing_id)
    /\ borrowings[last.borrowing_id].returned_at = 0
    /\ today > 0
    /\ \E j \in 1..Len(borrowings) :
          /\ j > last.borrowing_id
          /\ borrowings[j].member = borrowings[last.borrowing_id].member
          /\ borrowings[j].book = borrowings[last.borrowing_id].book
          /\ borrowings[j].returned_at = Null

====
